---------------------------- MODULE Spec2Model ----------------------------
(***************************************************************************)
(* A model of the tank-arena server: the hub simulation (hubs.rs), the     *)
(* entity transitions (players.rs), the wire events (events.rs) and the    *)
(* hub manager (hubs.rs).                                                  *)
(*                                                                         *)
(* Numbers.  Coordinates, velocities and accelerations are f64 in the      *)
(* code, and f64 in the model: sign, exponent and the 53 bits of the       *)
(* mantissa, with sums and quotients rounded to nearest, ties to even.     *)
(* Lengths written as integers in the model are tenths of a world unit     *)
(* (1.0 is Unit).  Health and stats are integers (percent, and the i32 of  *)
(* Entity::stat).                                                          *)
(***************************************************************************)
EXTENDS Integers, Sequences, FiniteSets, TLC

VARIABLES
    \* ---- Hub (hubs.rs:61-67) and the locals of game_update_loop ----
    entities,          \* IndexMap<Id, Entity>: a sequence of [id, e], in map order
    tiles,             \* PlayerPositions.tiles: tile index -> IndexSet<Id> (a sequence)
    queued_events,     \* Vec<ServerEvent>
    ids,               \* IdCounter of the hub
    tick,              \* the local `tick` of game_update_loop, a u32 kept as the
                       \* i32 of the same bits (`tick as i32`): 2^32 - 1 is -1
    panic,             \* "none" while the task of the loop runs, else the panic
                       \* that ended it
    due,               \* TRUE when interval.tick() is ready at the next select
    config,            \* Config: [max_player_count, map_size]
    user_adder,        \* admission channel of the hub: streams waiting
    received_updates,  \* inbound UserMessage channel
    broadcast,         \* the broadcast channel: every batch sent, in order
    sessions,          \* per client stream: the ClientSession task, its broadcast
                       \* receiver and the frames written to its socket
    \* ---- history of the hub run ----
    enqueued,          \* every ServerEvent ever pushed on queued_events, in order
    goneSent,          \* GoingAway messages sent: [id, at, live]
    goneHandled,       \* GoingAway messages handled for a live id: [id, at]
    lastStep,          \* the name of the last step of the hub run
    nSent,             \* number of UserEvents the sessions have sent
    marks,             \* per batch: Len(enqueued) when its update_entities call
                       \* began (from) and when the batch was sent (to)
    \* ---- HubManager (hubs.rs:21-25) ----
    hubs,              \* IndexMap<Id, HubPlayers> plus each hub's task and channel
    mgrIds,            \* IdCounter of the manager
    passed,            \* number of streams passed to create_client so far
    dropped,           \* streams whose send failed and that were dropped
    \* ---- a lone Player entity taking LevelUpgrade events ----
    lvEntity,          \* the entity
    lvPrev,            \* the entity before the last upgrade
    lvStat,            \* the stat of the last upgrade (-1: none yet)
    lvPoints0,         \* the points the player started with
    lvCount,           \* number of upgrades applied
    lvSame,            \* TRUE while every upgrade so far named the same stat
    \* ---- what the last tick and the last user message saw ----
    tickPre,           \* entities and ids as the last tick began, and the
                       \* entities as the tick before it ended
    tickHits,          \* the hits the last tick recorded, in recording order
    tickEnd,           \* entities as the last tick ended
    lastMsg,           \* the user message handled last since the last tick, and
                       \* whether its id was present
    \* ---- a PlayerPositions<100> on its own ----
    positions,         \* the grid
    posSize,           \* the size it was made with
    posOp,             \* the last operation: its arguments, result and the grid before
    \* ---- a lone Bullet entity taking motion steps ----
    blBullet,          \* the bullet
    blCreated,         \* the bullet as it was created
    blPrev,            \* the bullet before its last motion step
    blMoves            \* number of motion steps taken

hubVars  == <<entities, tiles, queued_events, ids, tick, panic, due, config,
              user_adder, received_updates, broadcast, sessions>>
histVars == <<enqueued, goneSent, goneHandled, lastStep, nSent, marks>>
mgrVars  == <<hubs, mgrIds, passed, dropped>>
lvVars   == <<lvEntity, lvPrev, lvStat, lvPoints0, lvCount, lvSame>>
obsVars  == <<tickPre, tickHits, tickEnd, lastMsg>>
ppVars   == <<positions, posSize, posOp>>
blVars   == <<blBullet, blCreated, blPrev, blMoves>>
vars     == <<hubVars, histVars, mgrVars, lvVars, obsVars, ppVars, blVars>>

-----------------------------------------------------------------------------
(* Numbers and small helpers *)

\* tenths per world unit: the 1/10 of `x_mod as f64 / 10.`
Unit == 10

Abs(n) == IF n < 0 THEN -n ELSE n

\* 2^26, 2^27 and 2^28
B26 == 67108864
B27 == 2 * B26
B28 == 4 * B26

\* An f64 of the program is kept as [s, e, h, l] and is the number
\*     s * (h * 2^26 + l) * 2^e :
\* the sign s (1 or -1, and 0 for 0.0), the 53 bits of the mantissa in two
\* parts, 2^26 <= h < 2^27 and 0 <= l < 2^26, and the exponent e of its last
\* bit.  1.0 is F64(1, -52, B26, 0).  -0.0 is kept as 0.0 (the two compare
\* equal in the code); the runs reach no infinity, NaN or subnormal number.
F64(s, e, h, l) == [s |-> s, e |-> e, h |-> h, l |-> l]
Zero == F64(0, 0, 0, 0)

\* unary minus of f64
F64Neg(a) == [a EXCEPT !.s = -a.s]

\* f64::abs
F64Abs(a) == [a EXCEPT !.s = Abs(a.s)]

\* |a| < |b| for two f64 that are not 0.0
MagLt(a, b) ==
    a.e < b.e \/ (a.e = b.e /\ (a.h < b.h \/ (a.h = b.h /\ a.l < b.l)))

\* f64 a < b
F64Lt(a, b) ==
    IF a.s # b.s THEN a.s < b.s
    ELSE IF a.s = 1 THEN MagLt(a, b)
    ELSE a.s = -1 /\ MagLt(b, a)

\* a mantissa of 53 bits whose low part has reached 2^26 carries into the
\* high part, and into the exponent when that reaches 2^27
Carry(s, e, h, l) ==
    IF l < B26 THEN F64(s, e, h, l)
    ELSE IF h + 1 < B27 THEN F64(s, e, h + 1, 0)
    ELSE F64(s, e + 1, B26, 0)

\* round to nearest, ties to even: the last two bits of xl, and st for what
\* lies below them, decide whether the 53 bits above are rounded up
RoundEven(s, e, xh, xl, st) ==
    Carry(s, e, xh,
          xl \div 4 + (IF \/ xl % 4 = 3
                          \/ (xl % 4 = 2 /\ (st = 1 \/ (xl \div 4) % 2 = 1))
                       THEN 1 ELSE 0))

\* the number of places a high part below 2^26 can move up at once
ShiftBy(xh) ==
    IF xh < 1024 THEN 16
    ELSE IF xh < 262144 THEN 8
    ELSE IF xh < 4194304 THEN 4
    ELSE IF xh < 16777216 THEN 2
    ELSE 1

\* the f64 nearest to s * (xh * 2^28 + xl + r) * 2^(e - 2), where
\* 0 <= xl < 2^28 and r is 0 when st = 0 and lies strictly between 0 and 1
\* when st = 1: the number is brought to 55 bits (the 53 of the mantissa and
\* two more), what is moved out at the low end is remembered in st, and the
\* 55 bits are rounded
RECURSIVE F64Round(_, _, _, _, _)
F64Round(s, e, xh, xl, st) ==
    IF xh = 0 /\ xl = 0 THEN Zero
    ELSE IF xh >= B27
         THEN F64Round(s, e + 1, xh \div 2, xl \div 2 + (xh % 2) * B27,
                       IF xl % 2 = 1 THEN 1 ELSE st)
    ELSE IF xh = 0 THEN F64Round(s, e - 28, xl, 0, st)
    ELSE IF xh < B26
         THEN F64Round(s, e - ShiftBy(xh),
                       xh * 2^ShiftBy(xh) + xl \div 2^(28 - ShiftBy(xh)),
                       (xl % 2^(28 - ShiftBy(xh))) * 2^ShiftBy(xh), st)
    ELSE RoundEven(s, e, xh, xl, st)

\* (yh * 2^28 + yl) / 2^d: its high and low 28 bits, and whether bits were
\* moved out at the low end
ShrH(yh, yl, d) == IF d < 28 THEN yh \div 2^d ELSE 0
ShrL(yh, yl, d) ==
    IF d < 28 THEN yl \div 2^d + (yh % 2^d) * 2^(28 - d)
    ELSE IF d < 56 THEN yh \div 2^(d - 28)
    ELSE 0
ShrS(yh, yl, d) ==
    IF d < 28 THEN (IF yl % 2^d # 0 THEN 1 ELSE 0)
    ELSE IF d < 56 THEN (IF yl # 0 \/ yh % 2^(d - 28) # 0 THEN 1 ELSE 0)
    ELSE 1

\* a + b for |a| >= |b| > 0, both given with two more bits: a's are
\* a.h and 4 * a.l; b's, brought to the exponent of a, are yh and yl, with
\* st for what of b lies below them.  bs is the sign of b.
AddShifted(a, bs, yh, yl, st) ==
    F64Round(a.s, a.e,
             IF a.s = bs THEN a.h + yh + (4 * a.l + yl) \div B28
             ELSE a.h - yh - (IF 4 * a.l - yl - st >= 0 THEN 0 ELSE 1),
             IF a.s = bs THEN (4 * a.l + yl) % B28
             ELSE (4 * a.l - yl - st) % B28,
             st)
AddOrdered(a, b) ==
    AddShifted(a, b.s, ShrH(b.h, 4 * b.l, a.e - b.e), ShrL(b.h, 4 * b.l, a.e - b.e),
               ShrS(b.h, 4 * b.l, a.e - b.e))

\* f64 a + b: the exact sum, rounded
F64Add(a, b) ==
    IF a.s = 0 THEN b
    ELSE IF b.s = 0 THEN a
    ELSE AddOrdered(IF MagLt(a, b) THEN b ELSE a, IF MagLt(a, b) THEN a ELSE b)

\* the mantissa over 5 with five more bits: hq and lq are the two parts of
\* the quotient, r32 is 32 times the remainder
DivGuard(s, e, hq, lq, r32) ==
    F64Round(s, e - 4, 8 * hq + (32 * lq + r32 \div 5) \div B28,
             (32 * lq + r32 \div 5) % B28, IF r32 % 5 = 0 THEN 0 ELSE 1)
DivFive(s, e, hq, t) == DivGuard(s, e, hq, t \div 5, (t % 5) * 32)

\* f64 a / 10.: the exact quotient, rounded
F64Div10(a) ==
    IF a.s = 0 THEN Zero
    ELSE DivFive(a.s, a.e, a.h \div 5, (a.h % 5) * B26 + a.l)

\* `n as f64` of an integer
F64Int(n) ==
    IF n = 0 THEN Zero
    ELSE F64Round(IF n > 0 THEN 1 ELSE -1, 2, Abs(n) \div B28, Abs(n) % B28, 0)

\* the f64 of t tenths, as in `x_mod as f64 / 10.`
F64Of(t) == F64Div10(F64Int(t))

\* the f64 s * h * 2^(e + 26) of a whole number 0 < h < 2^27
RECURSIVE Normal(_, _, _)
Normal(s, e, h) ==
    IF h >= B26 THEN F64(s, e, h, 0)
    ELSE IF h < 8192 THEN Normal(s, e - 13, h * 8192)
    ELSE Normal(s, e - 1, 2 * h)

\* the f64 of t tenths, t a multiple of 5: a whole number of halves
F64Plain(t) ==
    IF t = 0 THEN Zero
    ELSE Normal(IF t > 0 THEN 1 ELSE -1, -27, Abs(t) \div 5)

\* an f64 that is a whole number of halves (below 2^26), and its tenths
IsPlain(a) ==
    \/ a.s = 0
    \/ /\ a.l = 0
       /\ -a.e - 1 >= 26
       /\ -a.e - 1 <= 52
       /\ a.h % 2^(-a.e - 27) = 0
Tenths(a) == IF a.s = 0 THEN 0 ELSE a.s * 5 * (a.h \div 2^(-a.e - 27))

\* the whole number of thousandths nearest to a magnitude below 2^20: p1 and
\* p0 are 1000 times the upper 14 and the lower 13 bits of the high part of
\* the mantissa, j the places below the point
MilliMag(p1, p0, j) ==
    IF j >= 40 THEN 0
    ELSE IF j >= 14 THEN (p1 + p0 \div 8192 + 2^(j - 14)) \div 2^(j - 13)
    ELSE p1 * 2^(13 - j) + (2 * p0 + 2^j) \div 2^(j + 1)
Milli(a) ==
    IF a.s = 0 THEN 0
    ELSE a.s * MilliMag(1000 * (a.h \div 8192), 1000 * (a.h % 8192), -a.e - 26)

\* f64 `as usize` of a number that is not negative and below 2^30
F64Trunc(a) ==
    IF a.s = 0 \/ -a.e > 52 THEN 0
    ELSE IF -a.e >= 26 THEN a.h \div 2^(-a.e - 26)
    ELSE a.h * 2^(26 + a.e) + a.l \div 2^(-a.e)

\* An f32 of the program is kept as [s, e, m] and is the number s * m * 2^e:
\* the sign s (1 or -1, and 0 for 0.0), the 24 bits of the mantissa,
\* 2^23 <= m < 2^24, and the exponent e of its last bit.
B23 == B26 \div 8
F32(s, e, m) == [s |-> s, e |-> e, m |-> m]
Zero32 == F32(0, 0, 0)

\* the f32 nearest to s * (x + r) * 2^e, ties to even, where 0 < x < 2^31 and
\* r is 0 when st = 0 and lies strictly between 0 and 1 when st = 1 (x then
\* has 26 bits or more): x is brought to 26 bits, the 24 of the mantissa and
\* two more, what is moved out at the low end is remembered in st, and the
\* 26 bits are rounded
RECURSIVE F32Round(_, _, _, _)
F32Round(s, e, x, st) ==
    IF x >= 8 * B23 THEN F32Round(s, e + 1, x \div 2, IF x % 2 = 1 THEN 1 ELSE st)
    ELSE IF x < 4 * B23 THEN F32Round(s, e - 1, 2 * x, st)
    ELSE IF x % 4 = 3 \/ (x % 4 = 2 /\ (st = 1 \/ (x \div 4) % 2 = 1))
         THEN IF x \div 4 + 1 < 2 * B23 THEN F32(s, e + 2, x \div 4 + 1)
              ELSE F32(s, e + 3, B23)
    ELSE F32(s, e + 2, x \div 4)

\* `n as f32` of an integer
F32Int(n) ==
    IF n = 0 THEN Zero32
    ELSE F32Round(IF n > 0 THEN 1 ELSE -1, 0, Abs(n), 0)

\* n more bits of the quotient q of a long division by b, r the remainder so
\* far: [q, r]
RECURSIVE DivBits(_, _, _, _)
DivBits(q, r, b, n) ==
    IF n = 0 THEN [q |-> q, r |-> r]
    ELSE IF 2 * r >= b THEN DivBits(2 * q + 1, 2 * r - b, b, n - 1)
    ELSE DivBits(2 * q, 2 * r, b, n - 1)

\* the quotient d of the mantissas, of 26 or 27 bits, rounded
DivRound(s, e, d) == F32Round(s, e, d.q, IF d.r = 0 THEN 0 ELSE 1)

\* f32 a / b, b not 0.0: the exact quotient, rounded
F32Div(a, b) ==
    IF a.s = 0 THEN Zero32
    ELSE DivRound(a.s * b.s, a.e - b.e - 26, DivBits(a.m \div b.m, a.m % b.m, b.m, 26))

\* f32 a * 100.: the exact product, rounded
F32Mul100(a) == IF a.s = 0 THEN Zero32 ELSE F32Round(a.s, a.e, 100 * a.m, 0)

\* a - b for two f32 of one sign with |a| >= |b| > 0, both given with three
\* more bits: y is b brought to the exponent of a, st what of b lies below it
SubShifted(a, y, st) ==
    IF 8 * a.m - y - st = 0 THEN Zero32
    ELSE F32Round(a.s, a.e - 3, 8 * a.m - y - st, st)
SubOrdered(a, b) ==
    IF a.e - b.e >= 27 THEN SubShifted(a, 0, 1)
    ELSE SubShifted(a, (8 * b.m) \div 2^(a.e - b.e),
                    IF (8 * b.m) % 2^(a.e - b.e) = 0 THEN 0 ELSE 1)

\* a + b for two f32 of one sign with |a| >= |b| > 0
AddSame(a, b) ==
    IF a.e - b.e >= 27 THEN a
    ELSE F32Round(a.s, a.e - 3, 8 * a.m + (8 * b.m) \div 2^(a.e - b.e),
                  IF (8 * b.m) % 2^(a.e - b.e) = 0 THEN 0 ELSE 1)

\* |a| < |b| for two f32 that are not 0.0
MagLt32(a, b) == a.e < b.e \/ (a.e = b.e /\ a.m < b.m)

\* f32 a - b: the exact difference, rounded
F32Sub(a, b) ==
    IF b.s = 0 THEN a
    ELSE IF a.s = 0 THEN [b EXCEPT !.s = -b.s]
    ELSE IF a.s = b.s
         THEN IF MagLt32(a, b) THEN SubOrdered([b EXCEPT !.s = -b.s], a)
              ELSE SubOrdered(a, b)
    ELSE IF MagLt32(a, b) THEN AddSame([b EXCEPT !.s = -b.s], a)
    ELSE AddSame(a, b)

\* Rust's % on i32: the remainder has the sign of the dividend
RustRem(a, b) == IF a >= 0 THEN a % Abs(b) ELSE -((-a) % Abs(b))

\* struct Vec2 { x: f64, y: f64 }.  A Vec2 of two whole numbers of halves is
\* kept as [x, y], their tenths; any other as [fx, fy], the two f64.
Vec(a, b) ==
    IF IsPlain(a) /\ IsPlain(b)
    THEN [x |-> Tenths(a), y |-> Tenths(b)]
    ELSE [fx |-> a, fy |-> b]

\* the Vec2 of the f64 of x and y tenths
Vec2(x, y) ==
    IF x % 5 = 0 /\ y % 5 = 0 THEN [x |-> x, y |-> y]
    ELSE Vec(F64Of(x), F64Of(y))

\* a Vec2 of two whole numbers of halves: sums and comparisons of such
\* numbers are those of their tenths
Plain(v) == "x" \in DOMAIN v

\* the fields x and y of a Vec2
X(v) == IF Plain(v) THEN F64Plain(v.x) ELSE v.fx
Y(v) == IF Plain(v) THEN F64Plain(v.y) ELSE v.fy

\* the fields x and y of a Vec2 in thousandths
MilliX(v) == IF Plain(v) THEN 100 * v.x ELSE Milli(v.fx)
MilliY(v) == IF Plain(v) THEN 100 * v.y ELSE Milli(v.fy)

RECURSIVE Flatten(_)
Flatten(ss) == IF ss = <<>> THEN <<>> ELSE Head(ss) \o Flatten(Tail(ss))

SeqRange(s) == {s[i] : i \in 1..Len(s)}


-----------------------------------------------------------------------------
(* Configuration: the tank catalogue (Config.tanks) used by the runs.  A    *)
(* tank reference (Arc<Tank>) is an index into Tanks; tanks[0] is Tanks[1]. *)
(* Tank 0 is the default player tank with a front cannon (delay 2) and a    *)
(* rear cannon (delay 1); tank 1 is their bullet.                           *)
(* A tank's size is in world units.                                         *)
(* Tanks 2 and 3 are Prop tanks: a heavy one that kills a tank of 100       *)
(* MaxHealth with one hit, and a harmless one that one such hit kills.      *)

Tanks ==
    << [id |-> 0, size |-> 10,
        base_stats |-> <<0, 100, 50, 0, 0, 0, 1, 1>>,
        cannons |-> << [yaw |-> 0, delay |-> 2, size |-> 1, bullet |-> 2],
                       [yaw |-> 180, delay |-> 1, size |-> 1, bullet |-> 2] >>],
       [id |-> 1, size |-> 5,
        base_stats |-> <<0, 100, 50, 0, 0, 0, 1, 1>>,
        cannons |-> <<>>],
       [id |-> 2, size |-> 10,
        base_stats |-> <<0, 1000, 100, 0, 0, 0, 1, 1>>,
        cannons |-> <<>>],
       [id |-> 3, size |-> 10,
        base_stats |-> <<0, 100, 0, 0, 0, 0, 1, 1>>,
        cannons |-> <<>>] >>

\* enum Stat (players.rs:258-267)
HealthRegen == 0
MaxHealth == 1
BodyDamage == 2
BulletSpeed == 3
BulletPenetration == 4
BulletDamage == 5
Reload == 6
MovementSpeed == 7
Stats == 0..7

-----------------------------------------------------------------------------
(* Coordinates (players.rs:13-58) *)

CoordEmpty == Vec2(0, 0)

\* a cap that compares the signed components
CapSigned(self, max) ==
    Vec(IF F64Lt(X(max), X(self)) THEN X(max) ELSE X(self),
        IF F64Lt(Y(max), Y(self)) THEN Y(max) ELSE Y(self))

\* Coordinates::cap
Cap(self, max) ==
    IF Plain(self) /\ Plain(max)
    THEN [x |-> IF Abs(self.x) > Abs(max.x) THEN max.x ELSE self.x,
          y |-> IF Abs(self.y) > Abs(max.y) THEN max.y ELSE self.y]
    ELSE Vec(IF F64Lt(F64Abs(X(max)), F64Abs(X(self))) THEN X(max) ELSE X(self),
             IF F64Lt(F64Abs(Y(max)), F64Abs(Y(self))) THEN Y(max) ELSE Y(self))

\* Coordinates::combine
Combine(self, other) ==
    IF Plain(self) /\ Plain(other)
    THEN [x |-> self.x + other.x, y |-> self.y + other.y]
    ELSE Vec(F64Add(X(self), X(other)), F64Add(Y(self), Y(other)))

\* SinCos[yaw + 1] is f64::sin and f64::cos of `yaw as f64 * PI / 180.` for
\* yaw = 0 .. 1080, each as s, e, h, l.  PI as f64 lies below pi and the
\* product is rounded, so sin(180 * PI / 180.) is 1.2246467991473532e-16
\* and not 0, and the values of yaw + 360 are not those of yaw.
SinCos ==
    << <<0, 0, 0, 0, 1, -52, 67108864, 0>>,
       <<1, -58, 74957514, 59366686, 1, -53, 134197285, 66432906>>,
       <<1, -57, 74946098, 33020967, 1, -53, 134135966, 12518759>>,
       <<1, -57, 112390610, 15714573, 1, -53, 134033787, 18015773>>,
       <<1, -56, 74900443, 23744808, 1, -53, 133890780, 24182774>>,
       <<1, -56, 93582766, 12747010, 1, -53, 133706989, 1578402>>,
       <<1, -56, 112236582, 54286187, 1, -53, 133482469, 16279494>>,
       <<1, -56, 130856211, 5202643, 1, -53, 133217289, 27410059>>,
       <<1, -55, 74717989, 42835481, 1, -53, 132911530, 19960954>>,
       <<1, -55, 83985113, 61363061, 1, -53, 132565285, 3138652>>,
       <<1, -55, 93226655, 34304905, 1, -53, 132178659, 8461335>>,
       <<1, -55, 102439799, 24535631, 1, -53, 131751770, 20494018>>,
       <<1, -55, 111621739, 4348149, 1, -53, 131284748, 41549952>>,
       <<1, -55, 120769677, 47040117, 1, -53, 130777736, 21923599>>,
       <<1, -55, 129880828, 48544029, 1, -53, 130230887, 58309157>>,
       <<1, -54, 69476208, 26412688, 1, -53, 129644369, 55099157>>,
       <<1, -54, 73990839, 20090409, 1, -53, 129018360, 56523648>>,
       <<1, -54, 78482931, 58971592, 1, -53, 128353051, 41671455>>,
       <<1, -54, 82951117, 53471567, 1, -53, 127648644, 54809855>>,
       <<1, -54, 87394036, 52699, 1, -53, 126905354, 67024075>>,
       <<1, -54, 91810333, 9047029, 1, -53, 126123408, 38939932>>,
       <<1, -54, 96198663, 63886140, 1, -53, 125303043, 50313221>>,
       <<1, -54, 100557691, 48600705, 1, -53, 124444510, 26725208>>,
       <<1, -54, 104886088, 43581354, 1, -53, 123548070, 2909807>>,
       <<1, -54, 109182536, 17177296, 1, -53, 122613995, 50298773>>,
       <<1, -54, 113445725, 53975123, 1, -53, 121642572, 3004263>>,
       <<1, -54, 117674358, 46007752, 1, -53, 120634094, 55982282>>,
       <<1, -54, 121867146, 54844928, 1, -53, 119588871, 20786285>>,
       <<1, -54, 126022813, 2379897, 1, -53, 118507219, 57485064>>,
       <<1, -54, 130140091, 32481517, 1, -53, 117389469, 64174534>>,
       <<1, -54, 134217727, 67108863, 1, -53, 116235962, 5786795>>,
       <<1, -53, 69127240, 16637715, 1, -53, 115047047, 41347806>>,
       <<1, -53, 71124559, 44883242, 1, -53, 113823088, 47032645>>,
       <<1, -53, 73100213, 57702173, 1, -53, 112564458, 11415516>>,
       <<1, -53, 75053601, 1178899, 1, -53, 111271539, 27848356>>,
       <<1, -53, 76984126, 8145272, 1, -53, 109944726, 18188103>>,
       <<1, -53, 78891201, 7690846, 1, -53, 108584422, 60290216>>,
       <<1, -53, 80774245, 5619382, 1, -53, 107191043, 44202516>>,
       <<1, -53, 82632684, 29215032, 1, -53, 105765012, 66347986>>,
       <<1, -53, 84465953, 4750013, 1, -53, 104306765, 18195240>>,
       <<1, -53, 86273492, 37492252, 1, -53, 102816744, 47140921>>,
       <<1, -53, 88054752, 20467667, 1, -53, 101295405, 10558520>>,
       <<1, -53, 89809189, 48368600, 1, -53, 99743210, 3391170>>,
       <<1, -53, 91536270, 25992235, 1, -53, 98160632, 13134211>>,
       <<1, -53, 93235468, 14709520, 1, -53, 96548153, 44387641>>,
       <<1, -53, 94906265, 41892812, 1, -53, 94906265, 41892813>>,
       <<1, -53, 96548153, 44387640, 1, -53, 93235468, 14709521>>,
       <<1, -53, 98160632, 13134210, 1, -53, 91536270, 25992235>>,
       <<1, -53, 99743210, 3391169, 1, -53, 89809189, 48368600>>,
       <<1, -53, 101295405, 10558519, 1, -53, 88054752, 20467668>>,
       <<1, -53, 102816744, 47140921, 1, -53, 86273492, 37492253>>,
       <<1, -53, 104306765, 18195239, 1, -53, 84465953, 4750014>>,
       <<1, -53, 105765012, 66347986, 1, -53, 82632684, 29215033>>,
       <<1, -53, 107191043, 44202516, 1, -53, 80774245, 5619383>>,
       <<1, -53, 108584422, 60290216, 1, -53, 78891201, 7690846>>,
       <<1, -53, 109944726, 18188103, 1, -53, 76984126, 8145273>>,
       <<1, -53, 111271539, 27848357, 1, -53, 75053601, 1178898>>,
       <<1, -53, 112564458, 11415515, 1, -53, 73100213, 57702174>>,
       <<1, -53, 113823088, 47032645, 1, -53, 71124559, 44883242>>,
       <<1, -53, 115047047, 41347805, 1, -53, 69127240, 16637717>>,
       <<1, -53, 116235962, 5786794, 1, -53, 67108864, 1>>,
       <<1, -53, 117389469, 64174534, 1, -54, 130140091, 32481518>>,
       <<1, -53, 118507219, 57485063, 1, -54, 126022813, 2379898>>,
       <<1, -53, 119588871, 20786284, 1, -54, 121867146, 54844929>>,
       <<1, -53, 120634094, 55982282, 1, -54, 117674358, 46007753>>,
       <<1, -53, 121642572, 3004263, 1, -54, 113445725, 53975123>>,
       <<1, -53, 122613995, 50298773, 1, -54, 109182536, 17177297>>,
       <<1, -53, 123548070, 2909806, 1, -54, 104886088, 43581358>>,
       <<1, -53, 124444510, 26725208, 1, -54, 100557691, 48600704>>,
       <<1, -53, 125303043, 50313221, 1, -54, 96198663, 63886142>>,
       <<1, -53, 126123408, 38939931, 1, -54, 91810333, 9047031>>,
       <<1, -53, 126905354, 67024074, 1, -54, 87394036, 52701>>,
       <<1, -53, 127648644, 54809855, 1, -54, 82951117, 53471568>>,
       <<1, -53, 128353051, 41671455, 1, -54, 78482931, 58971592>>,
       <<1, -53, 129018360, 56523648, 1, -54, 73990839, 20090409>>,
       <<1, -53, 129644369, 55099157, 1, -54, 69476208, 26412688>>,
       <<1, -53, 130230887, 58309157, 1, -55, 129880828, 48544035>>,
       <<1, -53, 130777736, 21923599, 1, -55, 120769677, 47040114>>,
       <<1, -53, 131284748, 41549951, 1, -55, 111621739, 4348154>>,
       <<1, -53, 131751770, 20494018, 1, -55, 102439799, 24535635>>,
       <<1, -53, 132178659, 8461335, 1, -55, 93226655, 34304908>>,
       <<1, -53, 132565285, 3138652, 1, -55, 83985113, 61363063>>,
       <<1, -53, 132911530, 19960953, 1, -55, 74717989, 42835490>>,
       <<1, -53, 133217289, 27410059, 1, -56, 130856211, 5202644>>,
       <<1, -53, 133482469, 16279494, 1, -56, 112236582, 54286187>>,
       <<1, -53, 133706989, 1578402, 1, -56, 93582766, 12747008>>,
       <<1, -53, 133890780, 24182774, 1, -56, 74900443, 23744819>>,
       <<1, -53, 134033787, 18015773, 1, -57, 112390610, 15714593>>,
       <<1, -53, 134135966, 12518759, 1, -57, 74946098, 33020983>>,
       <<1, -53, 134197285, 66432906, 1, -58, 74957514, 59366647>>,
       <<1, -52, 67108864, 0, 1, -106, 74025356, 51665927>>,
       <<1, -53, 134197285, 66432906, -1, -58, 74957514, 59366676>>,
       <<1, -53, 134135966, 12518759, -1, -57, 74946098, 33020933>>,
       <<1, -53, 134033787, 18015773, -1, -57, 112390610, 15714543>>,
       <<1, -53, 133890780, 24182774, -1, -56, 74900443, 23744810>>,
       <<1, -53, 133706989, 1578402, -1, -56, 93582766, 12747015>>,
       <<1, -53, 133482469, 16279495, -1, -56, 112236582, 54286178>>,
       <<1, -53, 133217289, 27410060, -1, -56, 130856211, 5202635>>,
       <<1, -53, 132911530, 19960954, -1, -55, 74717989, 42835478>>,
       <<1, -53, 132565285, 3138651, -1, -55, 83985113, 61363067>>,
       <<1, -53, 132178659, 8461335, -1, -55, 93226655, 34304904>>,
       <<1, -53, 131751770, 20494018, -1, -55, 102439799, 24535631>>,
       <<1, -53, 131284748, 41549952, -1, -55, 111621739, 4348142>>,
       <<1, -53, 130777736, 21923599, -1, -55, 120769677, 47040110>>,
       <<1, -53, 130230887, 58309157, -1, -55, 129880828, 48544031>>,
       <<1, -53, 129644369, 55099157, -1, -54, 69476208, 26412690>>,
       <<1, -53, 129018360, 56523648, -1, -54, 73990839, 20090407>>,
       <<1, -53, 128353051, 41671456, -1, -54, 78482931, 58971590>>,
       <<1, -53, 127648644, 54809856, -1, -54, 82951117, 53471566>>,
       <<1, -53, 126905354, 67024075, -1, -54, 87394036, 52695>>,
       <<1, -53, 126123408, 38939932, -1, -54, 91810333, 9047029>>,
       <<1, -53, 125303043, 50313221, -1, -54, 96198663, 63886140>>,
       <<1, -53, 124444510, 26725208, -1, -54, 100557691, 48600706>>,
       <<1, -53, 123548070, 2909807, -1, -54, 104886088, 43581352>>,
       <<1, -53, 122613995, 50298774, -1, -54, 109182536, 17177294>>,
       <<1, -53, 121642572, 3004264, -1, -54, 113445725, 53975121>>,
       <<1, -53, 120634094, 55982281, -1, -54, 117674358, 46007754>>,
       <<1, -53, 119588871, 20786285, -1, -54, 121867146, 54844927>>,
       <<1, -53, 118507219, 57485065, -1, -54, 126022813, 2379892>>,
       <<1, -53, 117389469, 64174535, -1, -54, 130140091, 32481516>>,
       <<1, -53, 116235962, 5786795, -1, -54, 134217727, 67108860>>,
       <<1, -53, 115047047, 41347806, -1, -53, 69127240, 16637716>>,
       <<1, -53, 113823088, 47032646, -1, -53, 71124559, 44883241>>,
       <<1, -53, 112564458, 11415515, -1, -53, 73100213, 57702173>>,
       <<1, -53, 111271539, 27848357, -1, -53, 75053601, 1178897>>,
       <<1, -53, 109944726, 18188105, -1, -53, 76984126, 8145270>>,
       <<1, -53, 108584422, 60290216, -1, -53, 78891201, 7690845>>,
       <<1, -53, 107191043, 44202515, -1, -53, 80774245, 5619383>>,
       <<1, -53, 105765012, 66347986, -1, -53, 82632684, 29215033>>,
       <<1, -53, 104306765, 18195241, -1, -53, 84465953, 4750012>>,
       <<1, -53, 102816744, 47140921, -1, -53, 86273492, 37492253>>,
       <<1, -53, 101295405, 10558517, -1, -53, 88054752, 20467670>>,
       <<1, -53, 99743210, 3391170, -1, -53, 89809189, 48368600>>,
       <<1, -53, 98160632, 13134211, -1, -53, 91536270, 25992234>>,
       <<1, -53, 96548153, 44387643, -1, -53, 93235468, 14709518>>,
       <<1, -53, 94906265, 41892813, -1, -53, 94906265, 41892812>>,
       <<1, -53, 93235468, 14709519, -1, -53, 96548153, 44387641>>,
       <<1, -53, 91536270, 25992236, -1, -53, 98160632, 13134210>>,
       <<1, -53, 89809189, 48368601, -1, -53, 99743210, 3391168>>,
       <<1, -53, 88054752, 20467668, -1, -53, 101295405, 10558519>>,
       <<1, -53, 86273492, 37492254, -1, -53, 102816744, 47140920>>,
       <<1, -53, 84465953, 4750016, -1, -53, 104306765, 18195238>>,
       <<1, -53, 82632684, 29215034, -1, -53, 105765012, 66347985>>,
       <<1, -53, 80774245, 5619381, -1, -53, 107191043, 44202517>>,
       <<1, -53, 78891201, 7690847, -1, -53, 108584422, 60290215>>,
       <<1, -53, 76984126, 8145275, -1, -53, 109944726, 18188101>>,
       <<1, -53, 75053601, 1178899, -1, -53, 111271539, 27848356>>,
       <<1, -53, 73100213, 57702172, -1, -53, 112564458, 11415517>>,
       <<1, -53, 71124559, 44883242, -1, -53, 113823088, 47032645>>,
       <<1, -53, 69127240, 16637717, -1, -53, 115047047, 41347805>>,
       <<1, -54, 134217727, 67108863, -1, -53, 116235962, 5786795>>,
       <<1, -54, 130140091, 32481519, -1, -53, 117389469, 64174534>>,
       <<1, -54, 126022813, 2379902, -1, -53, 118507219, 57485062>>,
       <<1, -54, 121867146, 54844930, -1, -53, 119588871, 20786284>>,
       <<1, -54, 117674358, 46007750, -1, -53, 120634094, 55982282>>,
       <<1, -54, 113445725, 53975124, -1, -53, 121642572, 3004263>>,
       <<1, -54, 109182536, 17177301, -1, -53, 122613995, 50298772>>,
       <<1, -54, 104886088, 43581362, -1, -53, 123548070, 2909805>>,
       <<1, -54, 100557691, 48600709, -1, -53, 124444510, 26725207>>,
       <<1, -54, 96198663, 63886139, -1, -53, 125303043, 50313221>>,
       <<1, -54, 91810333, 9047032, -1, -53, 126123408, 38939931>>,
       <<1, -54, 87394036, 52706, -1, -53, 126905354, 67024074>>,
       <<1, -54, 82951117, 53471569, -1, -53, 127648644, 54809855>>,
       <<1, -54, 78482931, 58971597, -1, -53, 128353051, 41671455>>,
       <<1, -54, 73990839, 20090418, -1, -53, 129018360, 56523646>>,
       <<1, -54, 69476208, 26412693, -1, -53, 129644369, 55099156>>,
       <<1, -55, 129880828, 48544029, -1, -53, 130230887, 58309157>>,
       <<1, -55, 120769677, 47040109, -1, -53, 130777736, 21923599>>,
       <<1, -55, 111621739, 4348149, -1, -53, 131284748, 41549952>>,
       <<1, -55, 102439799, 24535637, -1, -53, 131751770, 20494018>>,
       <<1, -55, 93226655, 34304903, -1, -53, 132178659, 8461335>>,
       <<1, -55, 83985113, 61363065, -1, -53, 132565285, 3138651>>,
       <<1, -55, 74717989, 42835492, -1, -53, 132911530, 19960953>>,
       <<1, -56, 130856211, 5202648, -1, -53, 133217289, 27410059>>,
       <<1, -56, 112236582, 54286207, -1, -53, 133482469, 16279494>>,
       <<1, -56, 93582766, 12747044, -1, -53, 133706989, 1578402>>,
       <<1, -56, 74900443, 23744824, -1, -53, 133890780, 24182774>>,
       <<1, -57, 112390610, 15714570, -1, -53, 134033787, 18015773>>,
       <<1, -57, 74946098, 33020928, -1, -53, 134135966, 12518759>>,
       <<1, -58, 74957514, 59366665, -1, -53, 134197285, 66432906>>,
       <<1, -105, 74025356, 51665927, -1, -52, 67108864, 0>>,
       <<-1, -58, 74957514, 59366594, -1, -53, 134197285, 66432906>>,
       <<-1, -57, 74946098, 33020957, -1, -53, 134135966, 12518759>>,
       <<-1, -57, 112390610, 15714535, -1, -53, 134033787, 18015773>>,
       <<-1, -56, 74900443, 23744774, -1, -53, 133890780, 24182775>>,
       <<-1, -56, 93582766, 12746994, -1, -53, 133706989, 1578402>>,
       <<-1, -56, 112236582, 54286158, -1, -53, 133482469, 16279495>>,
       <<-1, -56, 130856211, 5202662, -1, -53, 133217289, 27410059>>,
       <<-1, -55, 74717989, 42835484, -1, -53, 132911530, 19960953>>,
       <<-1, -55, 83985113, 61363056, -1, -53, 132565285, 3138652>>,
       <<-1, -55, 93226655, 34304910, -1, -53, 132178659, 8461335>>,
       <<-1, -55, 102439799, 24535628, -1, -53, 131751770, 20494018>>,
       <<-1, -55, 111621739, 4348140, -1, -53, 131284748, 41549952>>,
       <<-1, -55, 120769677, 47040116, -1, -53, 130777736, 21923599>>,
       <<-1, -55, 129880828, 48544021, -1, -53, 130230887, 58309157>>,
       <<-1, -54, 69476208, 26412681, -1, -53, 129644369, 55099158>>,
       <<-1, -54, 73990839, 20090406, -1, -53, 129018360, 56523648>>,
       <<-1, -54, 78482931, 58971585, -1, -53, 128353051, 41671456>>,
       <<-1, -54, 82951117, 53471573, -1, -53, 127648644, 54809855>>,
       <<-1, -54, 87394036, 52701, -1, -53, 126905354, 67024074>>,
       <<-1, -54, 91810333, 9047028, -1, -53, 126123408, 38939932>>,
       <<-1, -54, 96198663, 63886143, -1, -53, 125303043, 50313221>>,
       <<-1, -54, 100557691, 48600705, -1, -53, 124444510, 26725208>>,
       <<-1, -54, 104886088, 43581351, -1, -53, 123548070, 2909807>>,
       <<-1, -54, 109182536, 17177290, -1, -53, 122613995, 50298775>>,
       <<-1, -54, 113445725, 53975120, -1, -53, 121642572, 3004264>>,
       <<-1, -54, 117674358, 46007746, -1, -53, 120634094, 55982283>>,
       <<-1, -54, 121867146, 54844919, -1, -53, 119588871, 20786287>>,
       <<-1, -54, 126022813, 2379898, -1, -53, 118507219, 57485063>>,
       <<-1, -54, 130140091, 32481515, -1, -53, 117389469, 64174535>>,
       <<-1, -53, 67108864, 1, -1, -53, 116235962, 5786794>>,
       <<-1, -53, 69127240, 16637715, -1, -53, 115047047, 41347806>>,
       <<-1, -53, 71124559, 44883241, -1, -53, 113823088, 47032646>>,
       <<-1, -53, 73100213, 57702173, -1, -53, 112564458, 11415516>>,
       <<-1, -53, 75053601, 1178897, -1, -53, 111271539, 27848358>>,
       <<-1, -53, 76984126, 8145270, -1, -53, 109944726, 18188105>>,
       <<-1, -53, 78891201, 7690845, -1, -53, 108584422, 60290217>>,
       <<-1, -53, 80774245, 5619380, -1, -53, 107191043, 44202518>>,
       <<-1, -53, 82632684, 29215029, -1, -53, 105765012, 66347988>>,
       <<-1, -53, 84465953, 4750015, -1, -53, 104306765, 18195239>>,
       <<-1, -53, 86273492, 37492252, -1, -53, 102816744, 47140921>>,
       <<-1, -53, 88054752, 20467669, -1, -53, 101295405, 10558518>>,
       <<-1, -53, 89809189, 48368600, -1, -53, 99743210, 3391170>>,
       <<-1, -53, 91536270, 25992234, -1, -53, 98160632, 13134211>>,
       <<-1, -53, 93235468, 14709521, -1, -53, 96548153, 44387640>>,
       <<-1, -53, 94906265, 41892812, -1, -53, 94906265, 41892814>>,
       <<-1, -53, 96548153, 44387638, -1, -53, 93235468, 14709523>>,
       <<-1, -53, 98160632, 13134207, -1, -53, 91536270, 25992239>>,
       <<-1, -53, 99743210, 3391168, -1, -53, 89809189, 48368602>>,
       <<-1, -53, 101295405, 10558516, -1, -53, 88054752, 20467671>>,
       <<-1, -53, 102816744, 47140920, -1, -53, 86273492, 37492254>>,
       <<-1, -53, 104306765, 18195242, -1, -53, 84465953, 4750011>>,
       <<-1, -53, 105765012, 66347987, -1, -53, 82632684, 29215031>>,
       <<-1, -53, 107191043, 44202516, -1, -53, 80774245, 5619382>>,
       <<-1, -53, 108584422, 60290215, -1, -53, 78891201, 7690847>>,
       <<-1, -53, 109944726, 18188101, -1, -53, 76984126, 8145275>>,
       <<-1, -53, 111271539, 27848354, -1, -53, 75053601, 1178902>>,
       <<-1, -53, 112564458, 11415516, -1, -53, 73100213, 57702172>>,
       <<-1, -53, 113823088, 47032645, -1, -53, 71124559, 44883243>>,
       <<-1, -53, 115047047, 41347804, -1, -53, 69127240, 16637718>>,
       <<-1, -53, 116235962, 5786792, -1, -53, 67108864, 4>>,
       <<-1, -53, 117389469, 64174536, -1, -54, 130140091, 32481513>>,
       <<-1, -53, 118507219, 57485064, -1, -54, 126022813, 2379896>>,
       <<-1, -53, 119588871, 20786284, -1, -54, 121867146, 54844931>>,
       <<-1, -53, 120634094, 55982280, -1, -54, 117674358, 46007758>>,
       <<-1, -53, 121642572, 3004261, -1, -54, 113445725, 53975132>>,
       <<-1, -53, 122613995, 50298774, -1, -54, 109182536, 17177295>>,
       <<-1, -53, 123548070, 2909806, -1, -54, 104886088, 43581356>>,
       <<-1, -53, 124444510, 26725207, -1, -54, 100557691, 48600710>>,
       <<-1, -53, 125303043, 50313220, -1, -54, 96198663, 63886148>>,
       <<-1, -53, 126123408, 38939930, -1, -54, 91810333, 9047041>>,
       <<-1, -53, 126905354, 67024075, -1, -54, 87394036, 52699>>,
       <<-1, -53, 127648644, 54809855, -1, -54, 82951117, 53471570>>,
       <<-1, -53, 128353051, 41671454, -1, -54, 78482931, 58971598>>,
       <<-1, -53, 129018360, 56523649, -1, -54, 73990839, 20090404>>,
       <<-1, -53, 129644369, 55099157, -1, -54, 69476208, 26412686>>,
       <<-1, -53, 130230887, 58309157, -1, -55, 129880828, 48544031>>,
       <<-1, -53, 130777736, 21923598, -1, -55, 120769677, 47040126>>,
       <<-1, -53, 131284748, 41549951, -1, -55, 111621739, 4348166>>,
       <<-1, -53, 131751770, 20494017, -1, -55, 102439799, 24535655>>,
       <<-1, -53, 132178659, 8461335, -1, -55, 93226655, 34304905>>,
       <<-1, -53, 132565285, 3138651, -1, -55, 83985113, 61363067>>,
       <<-1, -53, 132911530, 19960954, -1, -55, 74717989, 42835463>>,
       <<-1, -53, 133217289, 27410060, -1, -56, 130856211, 5202621>>,
       <<-1, -53, 133482469, 16279495, -1, -56, 112236582, 54286180>>,
       <<-1, -53, 133706989, 1578402, -1, -56, 93582766, 12747016>>,
       <<-1, -53, 133890780, 24182774, -1, -56, 74900443, 23744828>>,
       <<-1, -53, 134033787, 18015773, -1, -57, 112390610, 15714642>>,
       <<-1, -53, 134135966, 12518758, -1, -57, 74946098, 33021065>>,
       <<-1, -53, 134197285, 66432906, -1, -58, 74957514, 59366682>>,
       <<-1, -52, 67108864, 0, -1, -105, 111038035, 10390026>>,
       <<-1, -53, 134197285, 66432906, 1, -58, 74957514, 59366576>>,
       <<-1, -53, 134135966, 12518759, 1, -57, 74946098, 33021012>>,
       <<-1, -53, 134033787, 18015773, 1, -57, 112390610, 15714590>>,
       <<-1, -53, 133890780, 24182775, 1, -56, 74900443, 23744802>>,
       <<-1, -53, 133706989, 1578402, 1, -56, 93582766, 12746990>>,
       <<-1, -53, 133482469, 16279495, 1, -56, 112236582, 54286153>>,
       <<-1, -53, 133217289, 27410059, 1, -56, 130856211, 5202658>>,
       <<-1, -53, 132911530, 19960954, 1, -55, 74717989, 42835482>>,
       <<-1, -53, 132565285, 3138652, 1, -55, 83985113, 61363054>>,
       <<-1, -53, 132178659, 8461336, 1, -55, 93226655, 34304892>>,
       <<-1, -53, 131751770, 20494019, 1, -55, 102439799, 24535611>>,
       <<-1, -53, 131284748, 41549953, 1, -55, 111621739, 4348122>>,
       <<-1, -53, 130777736, 21923599, 1, -55, 120769677, 47040114>>,
       <<-1, -53, 130230887, 58309158, 1, -55, 129880828, 48544019>>,
       <<-1, -53, 129644369, 55099156, 1, -54, 69476208, 26412695>>,
       <<-1, -53, 129018360, 56523647, 1, -54, 73990839, 20090413>>,
       <<-1, -53, 128353051, 41671455, 1, -54, 78482931, 58971591>>,
       <<-1, -53, 127648644, 54809856, 1, -54, 82951117, 53471564>>,
       <<-1, -53, 126905354, 67024076, 1, -54, 87394036, 52693>>,
       <<-1, -53, 126123408, 38939933, 1, -54, 91810333, 9047019>>,
       <<-1, -53, 125303043, 50313224, 1, -54, 96198663, 63886127>>,
       <<-1, -53, 124444510, 26725208, 1, -54, 100557691, 48600704>>,
       <<-1, -53, 123548070, 2909808, 1, -54, 104886088, 43581350>>,
       <<-1, -53, 122613995, 50298772, 1, -54, 109182536, 17177303>>,
       <<-1, -53, 121642572, 3004263, 1, -54, 113445725, 53975126>>,
       <<-1, -53, 120634094, 55982282, 1, -54, 117674358, 46007752>>,
       <<-1, -53, 119588871, 20786286, 1, -54, 121867146, 54844926>>,
       <<-1, -53, 118507219, 57485065, 1, -54, 126022813, 2379890>>,
       <<-1, -53, 117389469, 64174537, 1, -54, 130140091, 32481507>>,
       <<-1, -53, 116235962, 5786794, 1, -53, 67108864, 1>>,
       <<-1, -53, 115047047, 41347806, 1, -53, 69127240, 16637715>>,
       <<-1, -53, 113823088, 47032647, 1, -53, 71124559, 44883240>>,
       <<-1, -53, 112564458, 11415518, 1, -53, 73100213, 57702169>>,
       <<-1, -53, 111271539, 27848360, 1, -53, 75053601, 1178893>>,
       <<-1, -53, 109944726, 18188103, 1, -53, 76984126, 8145272>>,
       <<-1, -53, 108584422, 60290217, 1, -53, 78891201, 7690844>>,
       <<-1, -53, 107191043, 44202518, 1, -53, 80774245, 5619379>>,
       <<-1, -53, 105765012, 66347984, 1, -53, 82632684, 29215035>>,
       <<-1, -53, 104306765, 18195239, 1, -53, 84465953, 4750014>>,
       <<-1, -53, 102816744, 47140922, 1, -53, 86273492, 37492252>>,
       <<-1, -53, 101295405, 10558521, 1, -53, 88054752, 20467666>>,
       <<-1, -53, 99743210, 3391173, 1, -53, 89809189, 48368596>>,
       <<-1, -53, 98160632, 13134215, 1, -53, 91536270, 25992231>>,
       <<-1, -53, 96548153, 44387646, 1, -53, 93235468, 14709514>>,
       <<-1, -53, 94906265, 41892814, 1, -53, 94906265, 41892811>>,
       <<-1, -53, 93235468, 14709523, 1, -53, 96548153, 44387638>>,
       <<-1, -53, 91536270, 25992233, 1, -53, 98160632, 13134212>>,
       <<-1, -53, 89809189, 48368599, 1, -53, 99743210, 3391170>>,
       <<-1, -53, 88054752, 20467669, 1, -53, 101295405, 10558518>>,
       <<-1, -53, 86273492, 37492255, 1, -53, 102816744, 47140919>>,
       <<-1, -53, 84465953, 4750017, 1, -53, 104306765, 18195237>>,
       <<-1, -53, 82632684, 29215038, 1, -53, 105765012, 66347982>>,
       <<-1, -53, 80774245, 5619382, 1, -53, 107191043, 44202516>>,
       <<-1, -53, 78891201, 7690848, 1, -53, 108584422, 60290215>>,
       <<-1, -53, 76984126, 8145276, 1, -53, 109944726, 18188101>>,
       <<-1, -53, 75053601, 1178903, 1, -53, 111271539, 27848354>>,
       <<-1, -53, 73100213, 57702172, 1, -53, 112564458, 11415516>>,
       <<-1, -53, 71124559, 44883250, 1, -53, 113823088, 47032640>>,
       <<-1, -53, 69127240, 16637718, 1, -53, 115047047, 41347804>>,
       <<-1, -53, 67108864, 4, 1, -53, 116235962, 5786792>>,
       <<-1, -54, 130140091, 32481514, 1, -53, 117389469, 64174535>>,
       <<-1, -54, 126022813, 2379897, 1, -53, 118507219, 57485063>>,
       <<-1, -54, 121867146, 54844932, 1, -53, 119588871, 20786284>>,
       <<-1, -54, 117674358, 46007745, 1, -53, 120634094, 55982283>>,
       <<-1, -54, 113445725, 53975133, 1, -53, 121642572, 3004261>>,
       <<-1, -54, 109182536, 17177296, 1, -53, 122613995, 50298774>>,
       <<-1, -54, 104886088, 43581372, 1, -53, 123548070, 2909803>>,
       <<-1, -54, 100557691, 48600711, 1, -53, 124444510, 26725207>>,
       <<-1, -54, 96198663, 63886149, 1, -53, 125303043, 50313219>>,
       <<-1, -54, 91810333, 9047027, 1, -53, 126123408, 38939932>>,
       <<-1, -54, 87394036, 52715, 1, -53, 126905354, 67024072>>,
       <<-1, -54, 82951117, 53471571, 1, -53, 127648644, 54809855>>,
       <<-1, -54, 78482931, 58971583, 1, -53, 128353051, 41671457>>,
       <<-1, -54, 73990839, 20090420, 1, -53, 129018360, 56523646>>,
       <<-1, -54, 69476208, 26412687, 1, -53, 129644369, 55099157>>,
       <<-1, -55, 129880828, 48544034, 1, -53, 130230887, 58309157>>,
       <<-1, -55, 120769677, 47040129, 1, -53, 130777736, 21923598>>,
       <<-1, -55, 111621739, 4348169, 1, -53, 131284748, 41549951>>,
       <<-1, -55, 102439799, 24535626, 1, -53, 131751770, 20494018>>,
       <<-1, -55, 93226655, 34304939, 1, -53, 132178659, 8461334>>,
       <<-1, -55, 83985113, 61363070, 1, -53, 132565285, 3138651>>,
       <<-1, -55, 74717989, 42835497, 1, -53, 132911530, 19960953>>,
       <<-1, -56, 130856211, 5202689, 1, -53, 133217289, 27410059>>,
       <<-1, -56, 112236582, 54286184, 1, -53, 133482469, 16279494>>,
       <<-1, -56, 93582766, 12747021, 1, -53, 133706989, 1578402>>,
       <<-1, -56, 74900443, 23744769, 1, -53, 133890780, 24182775>>,
       <<-1, -57, 112390610, 15714651, 1, -53, 134033787, 18015773>>,
       <<-1, -57, 74946098, 33020946, 1, -53, 134135966, 12518759>>,
       <<-1, -58, 74957514, 59366956, 1, -53, 134197285, 66432906>>,
       <<-1, -104, 74025356, 51665927, 1, -52, 67108864, 0>>,
       <<1, -58, 74957514, 59366559, 1, -53, 134197285, 66432906>>,
       <<1, -57, 74946098, 33020875, 1, -53, 134135966, 12518759>>,
       <<1, -57, 112390610, 15714581, 1, -53, 134033787, 18015773>>,
       <<1, -56, 74900443, 23744797, 1, -53, 133890780, 24182775>>,
       <<1, -56, 93582766, 12747049, 1, -53, 133706989, 1578401>>,
       <<1, -56, 112236582, 54286149, 1, -53, 133482469, 16279495>>,
       <<1, -56, 130856211, 5202654, 1, -53, 133217289, 27410059>>,
       <<1, -55, 74717989, 42835448, 1, -53, 132911530, 19960955>>,
       <<1, -55, 83985113, 61363052, 1, -53, 132565285, 3138652>>,
       <<1, -55, 93226655, 34304890, 1, -53, 132178659, 8461336>>,
       <<1, -55, 102439799, 24535640, 1, -53, 131751770, 20494017>>,
       <<1, -55, 111621739, 4348120, 1, -53, 131284748, 41549953>>,
       <<1, -55, 120769677, 47040111, 1, -53, 130777736, 21923599>>,
       <<1, -55, 129880828, 48544047, 1, -53, 130230887, 58309156>>,
       <<1, -54, 69476208, 26412679, 1, -53, 129644369, 55099158>>,
       <<1, -54, 73990839, 20090412, 1, -53, 129018360, 56523647>>,
       <<1, -54, 78482931, 58971590, 1, -53, 128353051, 41671456>>,
       <<1, -54, 82951117, 53471563, 1, -53, 127648644, 54809856>>,
       <<1, -54, 87394036, 52692, 1, -53, 126905354, 67024076>>,
       <<1, -54, 91810333, 9047033, 1, -53, 126123408, 38939931>>,
       <<1, -54, 96198663, 63886126, 1, -53, 125303043, 50313224>>,
       <<1, -54, 100557691, 48600703, 1, -53, 124444510, 26725208>>,
       <<1, -54, 104886088, 43581334, 1, -53, 123548070, 2909811>>,
       <<1, -54, 109182536, 17177288, 1, -53, 122613995, 50298775>>,
       <<1, -54, 113445725, 53975125, 1, -53, 121642572, 3004263>>,
       <<1, -54, 117674358, 46007751, 1, -53, 120634094, 55982282>>,
       <<1, -54, 121867146, 54844939, 1, -53, 119588871, 20786282>>,
       <<1, -54, 126022813, 2379889, 1, -53, 118507219, 57485066>>,
       <<1, -54, 130140091, 32481520, 1, -53, 117389469, 64174534>>,
       <<1, -54, 134217727, 67108851, 1, -53, 116235962, 5786798>>,
       <<1, -53, 69127240, 16637714, 1, -53, 115047047, 41347806>>,
       <<1, -53, 71124559, 44883240, 1, -53, 113823088, 47032647>>,
       <<1, -53, 73100213, 57702169, 1, -53, 112564458, 11415519>>,
       <<1, -53, 75053601, 1178893, 1, -53, 111271539, 27848360>>,
       <<1, -53, 76984126, 8145272, 1, -53, 109944726, 18188103>>,
       <<1, -53, 78891201, 7690850, 1, -53, 108584422, 60290212>>,
       <<1, -53, 80774245, 5619379, 1, -53, 107191043, 44202519>>,
       <<1, -53, 82632684, 29215034, 1, -53, 105765012, 66347984>>,
       <<1, -53, 84465953, 4750008, 1, -53, 104306765, 18195245>>,
       <<1, -53, 86273492, 37492251, 1, -53, 102816744, 47140922>>,
       <<1, -53, 88054752, 20467666, 1, -53, 101295405, 10558521>>,
       <<1, -53, 89809189, 48368602, 1, -53, 99743210, 3391168>>,
       <<1, -53, 91536270, 25992230, 1, -53, 98160632, 13134215>>,
       <<1, -53, 93235468, 14709520, 1, -53, 96548153, 44387641>>,
       <<1, -53, 94906265, 41892805, 1, -53, 94906265, 41892820>>,
       <<1, -53, 96548153, 44387638, 1, -53, 93235468, 14709523>>,
       <<1, -53, 98160632, 13134212, 1, -53, 91536270, 25992234>>,
       <<1, -53, 99743210, 3391165, 1, -53, 89809189, 48368606>>,
       <<1, -53, 101295405, 10558518, 1, -53, 88054752, 20467669>>,
       <<1, -53, 102816744, 47140919, 1, -53, 86273492, 37492255>>,
       <<1, -53, 104306765, 18195242, 1, -53, 84465953, 4750011>>,
       <<1, -53, 105765012, 66347981, 1, -53, 82632684, 29215038>>,
       <<1, -53, 107191043, 44202516, 1, -53, 80774245, 5619383>>,
       <<1, -53, 108584422, 60290210, 1, -53, 78891201, 7690854>>,
       <<1, -53, 109944726, 18188100, 1, -53, 76984126, 8145276>>,
       <<1, -53, 111271539, 27848358, 1, -53, 75053601, 1178897>>,
       <<1, -53, 112564458, 11415516, 1, -53, 73100213, 57702173>>,
       <<1, -53, 113823088, 47032644, 1, -53, 71124559, 44883244>>,
       <<1, -53, 115047047, 41347804, 1, -53, 69127240, 16637718>>,
       <<1, -53, 116235962, 5786796, 1, -54, 134217727, 67108859>>,
       <<1, -53, 117389469, 64174531, 1, -54, 130140091, 32481529>>,
       <<1, -53, 118507219, 57485063, 1, -54, 126022813, 2379898>>,
       <<1, -53, 119588871, 20786283, 1, -54, 121867146, 54844933>>,
       <<1, -53, 120634094, 55982280, 1, -54, 117674358, 46007760>>,
       <<1, -53, 121642572, 3004261, 1, -54, 113445725, 53975134>>,
       <<1, -53, 122613995, 50298773, 1, -54, 109182536, 17177297>>,
       <<1, -53, 123548070, 2909809, 1, -54, 104886088, 43581343>>,
       <<1, -53, 124444510, 26725206, 1, -54, 100557691, 48600712>>,
       <<1, -53, 125303043, 50313222, 1, -54, 96198663, 63886135>>,
       <<1, -53, 126123408, 38939929, 1, -54, 91810333, 9047043>>,
       <<1, -53, 126905354, 67024074, 1, -54, 87394036, 52701>>,
       <<1, -53, 127648644, 54809855, 1, -54, 82951117, 53471573>>,
       <<1, -53, 128353051, 41671456, 1, -54, 78482931, 58971584>>,
       <<1, -53, 129018360, 56523646, 1, -54, 73990839, 20090421>>,
       <<1, -53, 129644369, 55099157, 1, -54, 69476208, 26412688>>,
       <<1, -53, 130230887, 58309155, 1, -55, 129880828, 48544067>>,
       <<1, -53, 130777736, 21923598, 1, -55, 120769677, 47040131>>,
       <<1, -53, 131284748, 41549952, 1, -55, 111621739, 4348139>>,
       <<1, -53, 131751770, 20494016, 1, -55, 102439799, 24535659>>,
       <<1, -53, 132178659, 8461335, 1, -55, 93226655, 34304909>>,
       <<1, -53, 132565285, 3138651, 1, -55, 83985113, 61363072>>,
       <<1, -53, 132911530, 19960954, 1, -55, 74717989, 42835467>>,
       <<1, -53, 133217289, 27410059, 1, -56, 130856211, 5202693>>,
       <<1, -53, 133482469, 16279494, 1, -56, 112236582, 54286188>>,
       <<1, -53, 133706989, 1578401, 1, -56, 93582766, 12747089>>,
       <<1, -53, 133890780, 24182774, 1, -56, 74900443, 23744837>>,
       <<1, -53, 134033787, 18015773, 1, -57, 112390610, 15714660>>,
       <<1, -53, 134135966, 12518759, 1, -57, 74946098, 33020954>>,
       <<1, -53, 134197285, 66432906, 1, -58, 74957514, 59366717>>,
       <<1, -52, 67108864, 0, 1, -104, 92531695, 64582409>>,
       <<1, -53, 134197285, 66432906, -1, -58, 74957514, 59366797>>,
       <<1, -53, 134135966, 12518759, -1, -57, 74946098, 33020866>>,
       <<1, -53, 134033787, 18015773, -1, -57, 112390610, 15714572>>,
       <<1, -53, 133890780, 24182775, -1, -56, 74900443, 23744729>>,
       <<1, -53, 133706989, 1578402, -1, -56, 93582766, 12746981>>,
       <<1, -53, 133482469, 16279495, -1, -56, 112236582, 54286145>>,
       <<1, -53, 133217289, 27410059, -1, -56, 130856211, 5202649>>,
       <<1, -53, 132911530, 19960955, -1, -55, 74717989, 42835445>>,
       <<1, -53, 132565285, 3138653, -1, -55, 83985113, 61363018>>,
       <<1, -53, 132178659, 8461336, -1, -55, 93226655, 34304888>>,
       <<1, -53, 131751770, 20494017, -1, -55, 102439799, 24535638>>,
       <<1, -53, 131284748, 41549950, -1, -55, 111621739, 4348180>>,
       <<1, -53, 130777736, 21923599, -1, -55, 120769677, 47040109>>,
       <<1, -53, 130230887, 58309156, -1, -55, 129880828, 48544045>>,
       <<1, -53, 129644369, 55099158, -1, -54, 69476208, 26412678>>,
       <<1, -53, 129018360, 56523648, -1, -54, 73990839, 20090411>>,
       <<1, -53, 128353051, 41671458, -1, -54, 78482931, 58971574>>,
       <<1, -53, 127648644, 54809856, -1, -54, 82951117, 53471562>>,
       <<1, -53, 126905354, 67024079, -1, -54, 87394036, 52676>>,
       <<1, -53, 126123408, 38939934, -1, -54, 91810333, 9047017>>,
       <<1, -53, 125303043, 50313221, -1, -54, 96198663, 63886140>>,
       <<1, -53, 124444510, 26725212, -1, -54, 100557691, 48600687>>,
       <<1, -53, 123548070, 2909808, -1, -54, 104886088, 43581348>>,
       <<1, -53, 122613995, 50298772, -1, -54, 109182536, 17177301>>,
       <<1, -53, 121642572, 3004266, -1, -54, 113445725, 53975110>>,
       <<1, -53, 120634094, 55982282, -1, -54, 117674358, 46007750>>,
       <<1, -53, 119588871, 20786282, -1, -54, 121867146, 54844938>>,
       <<1, -53, 118507219, 57485066, -1, -54, 126022813, 2379888>>,
       <<1, -53, 117389469, 64174534, -1, -54, 130140091, 32481519>>,
       <<1, -53, 116235962, 5786799, -1, -54, 134217727, 67108850>>,
       <<1, -53, 115047047, 41347807, -1, -53, 69127240, 16637714>>,
       <<1, -53, 113823088, 47032643, -1, -53, 71124559, 44883246>>,
       <<1, -53, 112564458, 11415519, -1, -53, 73100213, 57702168>>,
       <<1, -53, 111271539, 27848356, -1, -53, 75053601, 1178899>>,
       <<1, -53, 109944726, 18188108, -1, -53, 76984126, 8145265>>,
       <<1, -53, 108584422, 60290218, -1, -53, 78891201, 7690844>>,
       <<1, -53, 107191043, 44202524, -1, -53, 80774245, 5619372>>,
       <<1, -53, 105765012, 66347990, -1, -53, 82632684, 29215028>>,
       <<1, -53, 104306765, 18195240, -1, -53, 84465953, 4750013>>,
       <<1, -53, 102816744, 47140928, -1, -53, 86273492, 37492245>>,
       <<1, -53, 101295405, 10558521, -1, -53, 88054752, 20467665>>,
       <<1, -53, 99743210, 3391168, -1, -53, 89809189, 48368602>>,
       <<1, -53, 98160632, 13134204, -1, -53, 91536270, 25992241>>,
       <<1, -53, 96548153, 44387641, -1, -53, 93235468, 14709519>>,
       <<1, -53, 94906265, 41892809, -1, -53, 94906265, 41892816>>,
       <<1, -53, 93235468, 14709524, -1, -53, 96548153, 44387637>>,
       <<1, -53, 91536270, 25992234, -1, -53, 98160632, 13134211>>,
       <<1, -53, 89809189, 48368606, -1, -53, 99743210, 3391164>>,
       <<1, -53, 88054752, 20467670, -1, -53, 101295405, 10558517>>,
       <<1, -53, 86273492, 37492262, -1, -53, 102816744, 47140914>>,
       <<1, -53, 84465953, 4750018, -1, -53, 104306765, 18195236>>,
       <<1, -53, 82632684, 29215033, -1, -53, 105765012, 66347986>>,
       <<1, -53, 80774245, 5619390, -1, -53, 107191043, 44202511>>,
       <<1, -53, 78891201, 7690848, -1, -53, 108584422, 60290214>>,
       <<1, -53, 76984126, 8145283, -1, -53, 109944726, 18188096>>,
       <<1, -53, 75053601, 1178904, -1, -53, 111271539, 27848353>>,
       <<1, -53, 73100213, 57702173, -1, -53, 112564458, 11415516>>,
       <<1, -53, 71124559, 44883238, -1, -53, 113823088, 47032648>>,
       <<1, -53, 69127240, 16637719, -1, -53, 115047047, 41347804>>,
       <<1, -54, 134217727, 67108860, -1, -53, 116235962, 5786796>>,
       <<1, -54, 130140091, 32481530, -1, -53, 117389469, 64174531>>,
       <<1, -54, 126022813, 2379899, -1, -53, 118507219, 57485063>>,
       <<1, -54, 121867146, 54844920, -1, -53, 119588871, 20786287>>,
       <<1, -54, 117674358, 46007761, -1, -53, 120634094, 55982279>>,
       <<1, -54, 113445725, 53975121, -1, -53, 121642572, 3004264>>,
       <<1, -54, 109182536, 17177313, -1, -53, 122613995, 50298770>>,
       <<1, -54, 104886088, 43581359, -1, -53, 123548070, 2909806>>,
       <<1, -54, 100557691, 48600728, -1, -53, 124444510, 26725203>>,
       <<1, -54, 96198663, 63886151, -1, -53, 125303043, 50313219>>,
       <<1, -54, 91810333, 9047029, -1, -53, 126123408, 38939932>>,
       <<1, -54, 87394036, 52717, -1, -53, 126905354, 67024072>>,
       <<1, -54, 82951117, 53471574, -1, -53, 127648644, 54809854>>,
       <<1, -54, 78482931, 58971585, -1, -53, 128353051, 41671456>>,
       <<1, -54, 73990839, 20090392, -1, -53, 129018360, 56523650>>,
       <<1, -54, 69476208, 26412689, -1, -53, 129644369, 55099157>>,
       <<1, -55, 129880828, 48544007, -1, -53, 130230887, 58309158>>,
       <<1, -55, 120769677, 47040133, -1, -53, 130777736, 21923598>>,
       <<1, -55, 111621739, 4348142, -1, -53, 131284748, 41549952>>,
       <<1, -55, 102439799, 24535661, -1, -53, 131751770, 20494016>>,
       <<1, -55, 93226655, 34304911, -1, -53, 132178659, 8461335>>,
       <<1, -55, 83985113, 61363105, -1, -53, 132565285, 3138650>>,
       <<1, -55, 74717989, 42835501, -1, -53, 132911530, 19960953>>,
       <<1, -56, 130856211, 5202761, -1, -53, 133217289, 27410058>>,
       <<1, -56, 112236582, 54286257, -1, -53, 133482469, 16279494>>,
       <<1, -56, 93582766, 12747030, -1, -53, 133706989, 1578402>>,
       <<1, -56, 74900443, 23744905, -1, -53, 133890780, 24182774>>,
       <<1, -57, 112390610, 15714669, -1, -53, 134033787, 18015773>>,
       <<1, -57, 74946098, 33020963, -1, -53, 134135966, 12518759>>,
       <<1, -58, 74957514, 59366479, -1, -53, 134197285, 66432906>>,
       <<1, -104, 111038035, 10390026, -1, -52, 67108864, 0>>,
       <<-1, -58, 74957514, 59366779, -1, -53, 134197285, 66432906>>,
       <<-1, -57, 74946098, 33020857, -1, -53, 134135966, 12518759>>,
       <<-1, -57, 112390610, 15714563, -1, -53, 134033787, 18015773>>,
       <<-1, -56, 74900443, 23744852, -1, -53, 133890780, 24182774>>,
       <<-1, -56, 93582766, 12746977, -1, -53, 133706989, 1578402>>,
       <<-1, -56, 112236582, 54286204, -1, -53, 133482469, 16279494>>,
       <<-1, -56, 130856211, 5202581, -1, -53, 133217289, 27410060>>,
       <<-1, -55, 74717989, 42835475, -1, -53, 132911530, 19960954>>,
       <<-1, -55, 83985113, 61363016, -1, -53, 132565285, 3138653>>,
       <<-1, -55, 93226655, 34304885, -1, -53, 132178659, 8461336>>,
       <<-1, -55, 102439799, 24535573, -1, -53, 131751770, 20494021>>,
       <<-1, -55, 111621739, 4348116, -1, -53, 131284748, 41549953>>,
       <<-1, -55, 120769677, 47040107, -1, -53, 130777736, 21923599>>,
       <<-1, -55, 129880828, 48544043, -1, -53, 130230887, 58309156>>,
       <<-1, -54, 69476208, 26412708, -1, -53, 129644369, 55099154>>,
       <<-1, -54, 73990839, 20090410, -1, -53, 129018360, 56523648>>,
       <<-1, -54, 78482931, 58971603, -1, -53, 128353051, 41671454>>,
       <<-1, -54, 82951117, 53471561, -1, -53, 127648644, 54809856>>,
       <<-1, -54, 87394036, 52705, -1, -53, 126905354, 67024074>>,
       <<-1, -54, 91810333, 9047016, -1, -53, 126123408, 38939934>>,
       <<-1, -54, 96198663, 63886139, -1, -53, 125303043, 50313221>>,
       <<-1, -54, 100557691, 48600686, -1, -53, 124444510, 26725212>>,
       <<-1, -54, 104886088, 43581347, -1, -53, 123548070, 2909808>>,
       <<-1, -54, 109182536, 17177271, -1, -53, 122613995, 50298779>>,
       <<-1, -54, 113445725, 53975109, -1, -53, 121642572, 3004267>>,
       <<-1, -54, 117674358, 46007749, -1, -53, 120634094, 55982282>>,
       <<-1, -54, 121867146, 54844908, -1, -53, 119588871, 20786290>>,
       <<-1, -54, 126022813, 2379887, -1, -53, 118507219, 57485066>>,
       <<-1, -54, 130140091, 32481518, -1, -53, 117389469, 64174534>>,
       <<-1, -53, 67108864, 6, -1, -53, 116235962, 5786791>>,
       <<-1, -53, 69127240, 16637713, -1, -53, 115047047, 41347807>>,
       <<-1, -53, 71124559, 44883246, -1, -53, 113823088, 47032643>>,
       <<-1, -53, 73100213, 57702168, -1, -53, 112564458, 11415519>>,
       <<-1, -53, 75053601, 1178898, -1, -53, 111271539, 27848357>>,
       <<-1, -53, 76984126, 8145264, -1, -53, 109944726, 18188109>>,
       <<-1, -53, 78891201, 7690843, -1, -53, 108584422, 60290218>>,
       <<-1, -53, 80774245, 5619384, -1, -53, 107191043, 44202515>>,
       <<-1, -53, 82632684, 29215027, -1, -53, 105765012, 66347990>>,
       <<-1, -53, 84465953, 4750013, -1, -53, 104306765, 18195240>>,
       <<-1, -53, 86273492, 37492244, -1, -53, 102816744, 47140928>>,
       <<-1, -53, 88054752, 20467665, -1, -53, 101295405, 10558522>>,
       <<-1, -53, 89809189, 48368589, -1, -53, 99743210, 3391179>>,
       <<-1, -53, 91536270, 25992229, -1, -53, 98160632, 13134216>>,
       <<-1, -53, 93235468, 14709519, -1, -53, 96548153, 44387642>>,
       <<-1, -53, 94906265, 41892816, -1, -53, 94906265, 41892809>>,
       <<-1, -53, 96548153, 44387637, -1, -53, 93235468, 14709524>>,
       <<-1, -53, 98160632, 13134211, -1, -53, 91536270, 25992235>>,
       <<-1, -53, 99743210, 3391175, -1, -53, 89809189, 48368595>>,
       <<-1, -53, 101295405, 10558517, -1, -53, 88054752, 20467670>>,
       <<-1, -53, 102816744, 47140923, -1, -53, 86273492, 37492250>>,
       <<-1, -53, 104306765, 18195236, -1, -53, 84465953, 4750018>>,
       <<-1, -53, 105765012, 66347985, -1, -53, 82632684, 29215033>>,
       <<-1, -53, 107191043, 44202510, -1, -53, 80774245, 5619390>>,
       <<-1, -53, 108584422, 60290214, -1, -53, 78891201, 7690849>>,
       <<-1, -53, 109944726, 18188095, -1, -53, 76984126, 8145283>>,
       <<-1, -53, 111271539, 27848353, -1, -53, 75053601, 1178904>>,
       <<-1, -53, 112564458, 11415507, -1, -53, 73100213, 57702187>>,
       <<-1, -53, 113823088, 47032639, -1, -53, 71124559, 44883252>>,
       <<-1, -53, 115047047, 41347803, -1, -53, 69127240, 16637719>>,
       <<-1, -53, 116235962, 5786795, -1, -54, 134217727, 67108861>>,
       <<-1, -53, 117389469, 64174538, -1, -54, 130140091, 32481503>>,
       <<-1, -53, 118507219, 57485063, -1, -54, 126022813, 2379900>>,
       <<-1, -53, 119588871, 20786287, -1, -54, 121867146, 54844921>>,
       <<-1, -53, 120634094, 55982279, -1, -54, 117674358, 46007762>>,
       <<-1, -53, 121642572, 3004264, -1, -54, 113445725, 53975122>>,
       <<-1, -53, 122613995, 50298770, -1, -54, 109182536, 17177314>>,
       <<-1, -53, 123548070, 2909805, -1, -54, 104886088, 43581360>>,
       <<-1, -53, 124444510, 26725203, -1, -54, 100557691, 48600729>>,
       <<-1, -53, 125303043, 50313219, -1, -54, 96198663, 63886152>>,
       <<-1, -53, 126123408, 38939932, -1, -54, 91810333, 9047030>>,
       <<-1, -53, 126905354, 67024071, -1, -54, 87394036, 52718>>,
       <<-1, -53, 127648644, 54809854, -1, -54, 82951117, 53471575>>,
       <<-1, -53, 128353051, 41671451, -1, -54, 78482931, 58971617>>,
       <<-1, -53, 129018360, 56523646, -1, -54, 73990839, 20090423>>,
       <<-1, -53, 129644369, 55099156, -1, -54, 69476208, 26412691>>,
       <<-1, -53, 130230887, 58309158, -1, -55, 129880828, 48544009>>,
       <<-1, -53, 130777736, 21923598, -1, -55, 120769677, 47040135>>,
       <<-1, -53, 131284748, 41549952, -1, -55, 111621739, 4348144>>,
       <<-1, -53, 131751770, 20494019, -1, -55, 102439799, 24535601>>,
       <<-1, -53, 132178659, 8461335, -1, -55, 93226655, 34304914>>,
       <<-1, -53, 132565285, 3138652, -1, -55, 83985113, 61363044>>,
       <<-1, -53, 132911530, 19960953, -1, -55, 74717989, 42835503>>,
       <<-1, -53, 133217289, 27410060, -1, -56, 130856211, 5202638>>,
       <<-1, -53, 133482469, 16279493, -1, -56, 112236582, 54286261>>,
       <<-1, -53, 133706989, 1578402, -1, -56, 93582766, 12747034>>,
       <<-1, -53, 133890780, 24182774, -1, -56, 74900443, 23744909>>,
       <<-1, -53, 134033787, 18015773, -1, -57, 112390610, 15714678>>,
       <<-1, -53, 134135966, 12518758, -1, -57, 74946098, 33021228>>,
       <<-1, -53, 134197285, 66432906, -1, -58, 74957514, 59367009>>,
       <<-1, -52, 67108864, 0, -1, -104, 129544374, 23306508>>,
       <<-1, -53, 134197285, 66432906, 1, -58, 74957514, 59366762>>,
       <<-1, -53, 134135966, 12518759, 1, -57, 74946098, 33020849>>,
       <<-1, -53, 134033787, 18015773, 1, -57, 112390610, 15714554>>,
       <<-1, -53, 133890780, 24182774, 1, -56, 74900443, 23744848>>,
       <<-1, -53, 133706989, 1578402, 1, -56, 93582766, 12746972>>,
       <<-1, -53, 133482469, 16279494, 1, -56, 112236582, 54286199>>,
       <<-1, -53, 133217289, 27410060, 1, -56, 130856211, 5202577>>,
       <<-1, -53, 132911530, 19960954, 1, -55, 74717989, 42835473>>,
       <<-1, -53, 132565285, 3138653, 1, -55, 83985113, 61363014>>,
       <<-1, -53, 132178659, 8461336, 1, -55, 93226655, 34304883>>,
       <<-1, -53, 131751770, 20494018, 1, -55, 102439799, 24535633>>,
       <<-1, -53, 131284748, 41549953, 1, -55, 111621739, 4348114>>,
       <<-1, -53, 130777736, 21923600, 1, -55, 120769677, 47040105>>,
       <<-1, -53, 130230887, 58309160, 1, -55, 129880828, 48543979>>,
       <<-1, -53, 129644369, 55099158, 1, -54, 69476208, 26412676>>,
       <<-1, -53, 129018360, 56523648, 1, -54, 73990839, 20090409>>,
       <<-1, -53, 128353051, 41671454, 1, -54, 78482931, 58971602>>,
       <<-1, -53, 127648644, 54809857, 1, -54, 82951117, 53471560>>,
       <<-1, -53, 126905354, 67024074, 1, -54, 87394036, 52704>>,
       <<-1, -53, 126123408, 38939934, 1, -54, 91810333, 9047015>>,
       <<-1, -53, 125303043, 50313222, 1, -54, 96198663, 63886138>>,
       <<-1, -53, 124444510, 26725212, 1, -54, 100557691, 48600685>>,
       <<-1, -53, 123548070, 2909802, 1, -54, 104886088, 43581375>>,
       <<-1, -53, 122613995, 50298773, 1, -54, 109182536, 17177299>>,
       <<-1, -53, 121642572, 3004267, 1, -54, 113445725, 53975108>>,
       <<-1, -53, 120634094, 55982290, 1, -54, 117674358, 46007719>>,
       <<-1, -53, 119588871, 20786283, 1, -54, 121867146, 54844936>>,
       <<-1, -53, 118507219, 57485066, 1, -54, 126022813, 2379886>>,
       <<-1, -53, 117389469, 64174542, 1, -54, 130140091, 32481489>>,
       <<-1, -53, 116235962, 5786799, 1, -54, 134217727, 67108848>>,
       <<-1, -53, 115047047, 41347807, 1, -53, 69127240, 16637713>>,
       <<-1, -53, 113823088, 47032644, 1, -53, 71124559, 44883245>>,
       <<-1, -53, 112564458, 11415519, 1, -53, 73100213, 57702167>>,
       <<-1, -53, 111271539, 27848357, 1, -53, 75053601, 1178898>>,
       <<-1, -53, 109944726, 18188100, 1, -53, 76984126, 8145277>>,
       <<-1, -53, 108584422, 60290218, 1, -53, 78891201, 7690843>>,
       <<-1, -53, 107191043, 44202524, 1, -53, 80774245, 5619371>>,
       <<-1, -53, 105765012, 66347980, 1, -53, 82632684, 29215039>>,
       <<-1, -53, 104306765, 18195241, 1, -53, 84465953, 4750012>>,
       <<-1, -53, 102816744, 47140928, 1, -53, 86273492, 37492244>>,
       <<-1, -53, 101295405, 10558533, 1, -53, 88054752, 20467652>>,
       <<-1, -53, 99743210, 3391169, 1, -53, 89809189, 48368601>>,
       <<-1, -53, 98160632, 13134216, 1, -53, 91536270, 25992229>>,
       <<-1, -53, 96548153, 44387653, 1, -53, 93235468, 14709507>>,
       <<-1, -53, 94906265, 41892810, 1, -53, 94906265, 41892815>>,
       <<-1, -53, 93235468, 14709525, 1, -53, 96548153, 44387636>>,
       <<-1, -53, 91536270, 25992235, 1, -53, 98160632, 13134210>>,
       <<-1, -53, 89809189, 48368607, 1, -53, 99743210, 3391164>>,
       <<-1, -53, 88054752, 20467671, 1, -53, 101295405, 10558517>>,
       <<-1, -53, 86273492, 37492250, 1, -53, 102816744, 47140923>>,
       <<-1, -53, 84465953, 4750019, 1, -53, 104306765, 18195236>>,
       <<-1, -53, 82632684, 29215046, 1, -53, 105765012, 66347975>>,
       <<-1, -53, 80774245, 5619378, 1, -53, 107191043, 44202520>>,
       <<-1, -53, 78891201, 7690849, 1, -53, 108584422, 60290213>>,
       <<-1, -53, 76984126, 8145284, 1, -53, 109944726, 18188095>>,
       <<-1, -53, 75053601, 1178891, 1, -53, 111271539, 27848361>>,
       <<-1, -53, 73100213, 57702174, 1, -53, 112564458, 11415515>>,
       <<-1, -53, 71124559, 44883252, 1, -53, 113823088, 47032639>>,
       <<-1, -53, 69127240, 16637734, 1, -53, 115047047, 41347795>>,
       <<-1, -54, 134217727, 67108862, 1, -53, 116235962, 5786795>>,
       <<-1, -54, 130140091, 32481532, 1, -53, 117389469, 64174530>>,
       <<-1, -54, 126022813, 2379901, 1, -53, 118507219, 57485062>>,
       <<-1, -54, 121867146, 54844951, 1, -53, 119588871, 20786279>>,
       <<-1, -54, 117674358, 46007763, 1, -53, 120634094, 55982279>>,
       <<-1, -54, 113445725, 53975123, 1, -53, 121642572, 3004263>>,
       <<-1, -54, 109182536, 17177315, 1, -53, 122613995, 50298769>>,
       <<-1, -54, 104886088, 43581331, 1, -53, 123548070, 2909812>>,
       <<-1, -54, 100557691, 48600700, 1, -53, 124444510, 26725209>>,
       <<-1, -54, 96198663, 63886153, 1, -53, 125303043, 50313219>>,
       <<-1, -54, 91810333, 9047061, 1, -53, 126123408, 38939926>>,
       <<-1, -54, 87394036, 52689, 1, -53, 126905354, 67024076>>,
       <<-1, -54, 82951117, 53471576, 1, -53, 127648644, 54809854>>,
       <<-1, -54, 78482931, 58971618, 1, -53, 128353051, 41671451>>,
       <<-1, -54, 73990839, 20090425, 1, -53, 129018360, 56523646>>,
       <<-1, -54, 69476208, 26412692, 1, -53, 129644369, 55099156>>,
       <<-1, -55, 129880828, 48544073, 1, -53, 130230887, 58309154>>,
       <<-1, -55, 120769677, 47040137, 1, -53, 130777736, 21923598>>,
       <<-1, -55, 111621739, 4348146, 1, -53, 131284748, 41549952>>,
       <<-1, -55, 102439799, 24535666, 1, -53, 131751770, 20494016>>,
       <<-1, -55, 93226655, 34304916, 1, -53, 132178659, 8461335>>,
       <<-1, -55, 83985113, 61363110, 1, -53, 132565285, 3138650>>,
       <<-1, -55, 74717989, 42835442, 1, -53, 132911530, 19960955>>,
       <<-1, -56, 130856211, 5202643, 1, -53, 133217289, 27410059>>,
       <<-1, -56, 112236582, 54286265, 1, -53, 133482469, 16279493>>,
       <<-1, -56, 93582766, 12746911, 1, -53, 133706989, 1578403>>,
       <<-1, -56, 74900443, 23744786, 1, -53, 133890780, 24182775>>,
       <<-1, -57, 112390610, 15714687, 1, -53, 134033787, 18015773>>,
       <<-1, -57, 74946098, 33021237, 1, -53, 134135966, 12518758>>,
       <<-1, -58, 74957514, 59366514, 1, -53, 134197285, 66432906>>,
       <<-1, -103, 74025356, 51665927, 1, -52, 67108864, 0>>,
       <<1, -58, 74957514, 59366232, 1, -53, 134197285, 66432906>>,
       <<1, -57, 74946098, 33020840, 1, -53, 134135966, 12518759>>,
       <<1, -57, 112390610, 15714546, 1, -53, 134033787, 18015773>>,
       <<1, -56, 74900443, 23744716, 1, -53, 133890780, 24182775>>,
       <<1, -56, 93582766, 12746968, 1, -53, 133706989, 1578402>>,
       <<1, -56, 112236582, 54286195, 1, -53, 133482469, 16279494>>,
       <<1, -56, 130856211, 5202700, 1, -53, 133217289, 27410059>>,
       <<1, -55, 74717989, 42835471, 1, -53, 132911530, 19960954>>,
       <<1, -55, 83985113, 61363012, 1, -53, 132565285, 3138654>>,
       <<1, -55, 93226655, 34304944, 1, -53, 132178659, 8461334>>,
       <<1, -55, 102439799, 24535631, 1, -53, 131751770, 20494018>>,
       <<1, -55, 111621739, 4348111, 1, -53, 131284748, 41549954>>,
       <<1, -55, 120769677, 47040040, 1, -53, 130777736, 21923603>>,
       <<1, -55, 129880828, 48544039, 1, -53, 130230887, 58309156>>,
       <<1, -54, 69476208, 26412675, 1, -53, 129644369, 55099159>>,
       <<1, -54, 73990839, 20090377, 1, -53, 129018360, 56523652>>,
       <<1, -54, 78482931, 58971601, 1, -53, 128353051, 41671454>>,
       <<1, -54, 82951117, 53471559, 1, -53, 127648644, 54809857>>,
       <<1, -54, 87394036, 52703, 1, -53, 126905354, 67024074>>,
       <<1, -54, 91810333, 9047014, 1, -53, 126123408, 38939934>>,
       <<1, -54, 96198663, 63886137, 1, -53, 125303043, 50313222>>,
       <<1, -54, 100557691, 48600713, 1, -53, 124444510, 26725206>>,
       <<1, -54, 104886088, 43581345, 1, -53, 123548070, 2909809>>,
       <<1, -54, 109182536, 17177269, 1, -53, 122613995, 50298779>>,
       <<1, -54, 113445725, 53975136, 1, -53, 121642572, 3004260>>,
       <<1, -54, 117674358, 46007747, 1, -53, 120634094, 55982283>>,
       <<1, -54, 121867146, 54844906, 1, -53, 119588871, 20786290>>,
       <<1, -54, 126022813, 2379913, 1, -53, 118507219, 57485059>>,
       <<1, -54, 130140091, 32481516, 1, -53, 117389469, 64174535>>,
       <<1, -54, 134217727, 67108847, 1, -53, 116235962, 5786799>>,
       <<1, -53, 69127240, 16637699, 1, -53, 115047047, 41347816>>,
       <<1, -53, 71124559, 44883245, 1, -53, 113823088, 47032644>>,
       <<1, -53, 73100213, 57702167, 1, -53, 112564458, 11415520>>,
       <<1, -53, 75053601, 1178897, 1, -53, 111271539, 27848357>>,
       <<1, -53, 76984126, 8145264, 1, -53, 109944726, 18188109>>,
       <<1, -53, 78891201, 7690842, 1, -53, 108584422, 60290218>>,
       <<1, -53, 80774245, 5619383, 1, -53, 107191043, 44202515>>,
       <<1, -53, 82632684, 29215026, 1, -53, 105765012, 66347991>>,
       <<1, -53, 84465953, 4750012, 1, -53, 104306765, 18195241>>,
       <<1, -53, 86273492, 37492256, 1, -53, 102816744, 47140918>>,
       <<1, -53, 88054752, 20467664, 1, -53, 101295405, 10558522>>,
       <<1, -53, 89809189, 48368588, 1, -53, 99743210, 3391180>>,
       <<1, -53, 91536270, 25992240, 1, -53, 98160632, 13134206>>,
       <<1, -53, 93235468, 14709518, 1, -53, 96548153, 44387643>>,
       <<1, -53, 94906265, 41892804, 1, -53, 94906265, 41892822>>,
       <<1, -53, 96548153, 44387625, 1, -53, 93235468, 14709536>>,
       <<1, -53, 98160632, 13134210, 1, -53, 91536270, 25992235>>,
       <<1, -53, 99743210, 3391163, 1, -53, 89809189, 48368607>>,
       <<1, -53, 101295405, 10558516, 1, -53, 88054752, 20467671>>,
       <<1, -53, 102816744, 47140923, 1, -53, 86273492, 37492251>>,
       <<1, -53, 104306765, 18195235, 1, -53, 84465953, 4750019>>,
       <<1, -53, 105765012, 66347985, 1, -53, 82632684, 29215034>>,
       <<1, -53, 107191043, 44202510, 1, -53, 80774245, 5619391>>,
       <<1, -53, 108584422, 60290222, 1, -53, 78891201, 7690837>>,
       <<1, -53, 109944726, 18188104, 1, -53, 76984126, 8145271>>,
       <<1, -53, 111271539, 27848352, 1, -53, 75053601, 1178905>>,
       <<1, -53, 112564458, 11415506, 1, -53, 73100213, 57702188>>,
       <<1, -53, 113823088, 47032647, 1, -53, 71124559, 44883239>>,
       <<1, -53, 115047047, 41347803, 1, -53, 69127240, 16637720>>,
       <<1, -53, 116235962, 5786787, 1, -53, 67108864, 13>>,
       <<1, -53, 117389469, 64174538, 1, -54, 130140091, 32481505>>,
       <<1, -53, 118507219, 57485062, 1, -54, 126022813, 2379902>>,
       <<1, -53, 119588871, 20786279, 1, -54, 121867146, 54844952>>,
       <<1, -53, 120634094, 55982279, 1, -54, 117674358, 46007764>>,
       <<1, -53, 121642572, 3004263, 1, -54, 113445725, 53975124>>,
       <<1, -53, 122613995, 50298769, 1, -54, 109182536, 17177316>>,
       <<1, -53, 123548070, 2909805, 1, -54, 104886088, 43581362>>,
       <<1, -53, 124444510, 26725203, 1, -54, 100557691, 48600731>>,
       <<1, -53, 125303043, 50313224, 1, -54, 96198663, 63886124>>,
       <<1, -53, 126123408, 38939931, 1, -54, 91810333, 9047032>>,
       <<1, -53, 126905354, 67024071, 1, -54, 87394036, 52720>>,
       <<1, -53, 127648644, 54809859, 1, -54, 82951117, 53471546>>,
       <<1, -53, 128353051, 41671456, 1, -54, 78482931, 58971589>>,
       <<1, -53, 129018360, 56523645, 1, -54, 73990839, 20090426>>,
       <<1, -53, 129644369, 55099152, 1, -54, 69476208, 26412724>>,
       <<1, -53, 130230887, 58309158, 1, -55, 129880828, 48544013>>,
       <<1, -53, 130777736, 21923598, 1, -55, 120769677, 47040139>>,
       <<1, -53, 131284748, 41549948, 1, -55, 111621739, 4348211>>,
       <<1, -53, 131751770, 20494016, 1, -55, 102439799, 24535668>>,
       <<1, -53, 132178659, 8461335, 1, -55, 93226655, 34304918>>,
       <<1, -53, 132565285, 3138650, 1, -55, 83985113, 61363112>>,
       <<1, -53, 132911530, 19960953, 1, -55, 74717989, 42835508>>,
       <<1, -53, 133217289, 27410059, 1, -56, 130856211, 5202647>>,
       <<1, -53, 133482469, 16279495, 1, -56, 112236582, 54286142>>,
       <<1, -53, 133706989, 1578402, 1, -56, 93582766, 12747043>>,
       <<1, -53, 133890780, 24182773, 1, -56, 74900443, 23744918>>,
       <<1, -53, 134033787, 18015774, 1, -57, 112390610, 15714440>>,
       <<1, -53, 134135966, 12518759, 1, -57, 74946098, 33020990>>,
       <<1, -53, 134197285, 66432906, 1, -58, 74957514, 59367044>>,
       <<1, -52, 67108864, 0, 1, -101, 87928495, 39696866>>,
       <<1, -53, 134197285, 66432906, -1, -58, 74957514, 59366726>>,
       <<1, -53, 134135966, 12518759, -1, -57, 74946098, 33020831>>,
       <<1, -53, 134033787, 18015774, -1, -57, 112390610, 15714281>>,
       <<1, -53, 133890780, 24182774, -1, -56, 74900443, 23744839>>,
       <<1, -53, 133706989, 1578402, -1, -56, 93582766, 12746964>>,
       <<1, -53, 133482469, 16279496, -1, -56, 112236582, 54286063>>,
       <<1, -53, 133217289, 27410061, -1, -56, 130856211, 5202568>>,
       <<1, -53, 132911530, 19960954, -1, -55, 74717989, 42835468>>,
       <<1, -53, 132565285, 3138651, -1, -55, 83985113, 61363073>>,
       <<1, -53, 132178659, 8461337, -1, -55, 93226655, 34304879>>,
       <<1, -53, 131751770, 20494021, -1, -55, 102439799, 24535566>>,
       <<1, -53, 131284748, 41549950, -1, -55, 111621739, 4348172>>,
       <<1, -53, 130777736, 21923600, -1, -55, 120769677, 47040101>>,
       <<1, -53, 130230887, 58309160, -1, -55, 129880828, 48543975>>,
       <<1, -53, 129644369, 55099155, -1, -54, 69476208, 26412704>>,
       <<1, -53, 129018360, 56523648, -1, -54, 73990839, 20090407>>,
       <<1, -53, 128353051, 41671459, -1, -54, 78482931, 58971570>>,
       <<1, -53, 127648644, 54809862, -1, -54, 82951117, 53471527>>,
       <<1, -53, 126905354, 67024074, -1, -54, 87394036, 52702>>,
       <<1, -53, 126123408, 38939935, -1, -54, 91810333, 9047013>>,
       <<1, -53, 125303043, 50313222, -1, -54, 96198663, 63886136>>,
       <<1, -53, 124444510, 26725206, -1, -54, 100557691, 48600712>>,
       <<1, -53, 123548070, 2909809, -1, -54, 104886088, 43581344>>,
       <<1, -53, 122613995, 50298773, -1, -54, 109182536, 17177297>>,
       <<1, -53, 121642572, 3004267, -1, -54, 113445725, 53975106>>,
       <<1, -53, 120634094, 55982283, -1, -54, 117674358, 46007746>>,
       <<1, -53, 119588871, 20786283, -1, -54, 121867146, 54844934>>,
       <<1, -53, 118507219, 57485067, -1, -54, 126022813, 2379884>>,
       <<1, -53, 117389469, 64174543, -1, -54, 130140091, 32481487>>,
       <<1, -53, 116235962, 5786792, -1, -53, 67108864, 5>>,
       <<1, -53, 115047047, 41347808, -1, -53, 69127240, 16637712>>,
       <<1, -53, 113823088, 47032653, -1, -53, 71124559, 44883231>>,
       <<1, -53, 112564458, 11415511, -1, -53, 73100213, 57702180>>,
       <<1, -53, 111271539, 27848358, -1, -53, 75053601, 1178897>>,
       <<1, -53, 109944726, 18188109, -1, -53, 76984126, 8145263>>,
       <<1, -53, 108584422, 60290219, -1, -53, 78891201, 7690842>>,
       <<1, -53, 107191043, 44202516, -1, -53, 80774245, 5619383>>,
       <<1, -53, 105765012, 66347991, -1, -53, 82632684, 29215026>>,
       <<1, -53, 104306765, 18195241, -1, -53, 84465953, 4750012>>,
       <<1, -53, 102816744, 47140929, -1, -53, 86273492, 37492243>>,
       <<1, -53, 101295405, 10558523, -1, -53, 88054752, 20467663>>,
       <<1, -53, 99743210, 3391170, -1, -53, 89809189, 48368600>>,
       <<1, -53, 98160632, 13134217, -1, -53, 91536270, 25992228>>,
       <<1, -53, 96548153, 44387632, -1, -53, 93235468, 14709529>>,
       <<1, -53, 94906265, 41892811, -1, -53, 94906265, 41892815>>,
       <<1, -53, 93235468, 14709525, -1, -53, 96548153, 44387636>>,
       <<1, -53, 91536270, 25992248, -1, -53, 98160632, 13134199>>,
       <<1, -53, 89809189, 48368596, -1, -53, 99743210, 3391174>>,
       <<1, -53, 88054752, 20467671, -1, -53, 101295405, 10558516>>,
       <<1, -53, 86273492, 37492264, -1, -53, 102816744, 47140912>>,
       <<1, -53, 84465953, 4750020, -1, -53, 104306765, 18195235>>,
       <<1, -53, 82632684, 29215034, -1, -53, 105765012, 66347984>>,
       <<1, -53, 80774245, 5619391, -1, -53, 107191043, 44202509>>,
       <<1, -53, 78891201, 7690850, -1, -53, 108584422, 60290213>>,
       <<1, -53, 76984126, 8145272, -1, -53, 109944726, 18188103>>,
       <<1, -53, 75053601, 1178892, -1, -53, 111271539, 27848361>>,
       <<1, -53, 73100213, 57702175, -1, -53, 112564458, 11415514>>,
       <<1, -53, 71124559, 44883253, -1, -53, 113823088, 47032639>>,
       <<1, -53, 69127240, 16637707, -1, -53, 115047047, 41347811>>,
       <<1, -53, 67108864, 0, -1, -53, 116235962, 5786794>>,
       <<1, -54, 130140091, 32481534, -1, -53, 117389469, 64174530>>,
       <<1, -54, 126022813, 2379931, -1, -53, 118507219, 57485054>>,
       <<1, -54, 121867146, 54844924, -1, -53, 119588871, 20786286>>,
       <<1, -54, 117674358, 46007765, -1, -53, 120634094, 55982278>>,
       <<1, -54, 113445725, 53975154, -1, -53, 121642572, 3004256>>,
       <<1, -54, 109182536, 17177287, -1, -53, 122613995, 50298775>>,
       <<1, -54, 104886088, 43581363, -1, -53, 123548070, 2909805>>,
       <<1, -54, 100557691, 48600732, -1, -53, 124444510, 26725202>>,
       <<1, -54, 96198663, 63886155, -1, -53, 125303043, 50313218>>,
       <<1, -54, 91810333, 9047033, -1, -53, 126123408, 38939931>>,
       <<1, -54, 87394036, 52691, -1, -53, 126905354, 67024076>>,
       <<1, -54, 82951117, 53471578, -1, -53, 127648644, 54809854>>,
       <<1, -54, 78482931, 58971620, -1, -53, 128353051, 41671451>>,
       <<1, -54, 73990839, 20090396, -1, -53, 129018360, 56523650>>,
       <<1, -54, 69476208, 26412694, -1, -53, 129644369, 55099156>>,
       <<1, -55, 129880828, 48544077, -1, -53, 130230887, 58309154>>,
       <<1, -55, 120769677, 47040079, -1, -53, 130777736, 21923601>>,
       <<1, -55, 111621739, 4348150, -1, -53, 131284748, 41549952>>,
       <<1, -55, 102439799, 24535670, -1, -53, 131751770, 20494016>>,
       <<1, -55, 93226655, 34304983, -1, -53, 132178659, 8461332>>,
       <<1, -55, 83985113, 61363051, -1, -53, 132565285, 3138652>>,
       <<1, -55, 74717989, 42835510, -1, -53, 132911530, 19960953>>,
       <<1, -56, 130856211, 5202779, -1, -53, 133217289, 27410057>>,
       <<1, -56, 112236582, 54286274, -1, -53, 133482469, 16279493>>,
       <<1, -56, 93582766, 12747047, -1, -53, 133706989, 1578401>>,
       <<1, -56, 74900443, 23744795, -1, -53, 133890780, 24182775>>,
       <<1, -57, 112390610, 15714704, -1, -53, 134033787, 18015773>>,
       <<1, -57, 74946098, 33020998, -1, -53, 134135966, 12518759>>,
       <<1, -58, 74957514, 59366550, -1, -53, 134197285, 66432906>>,
       <<1, -103, 92531695, 64582409, -1, -52, 67108864, 0>>,
       <<-1, -58, 74957514, 59366197, -1, -53, 134197285, 66432906>>,
       <<-1, -57, 74946098, 33021078, -1, -53, 134135966, 12518758>>,
       <<-1, -57, 112390610, 15714528, -1, -53, 134033787, 18015774>>,
       <<-1, -56, 74900443, 23744707, -1, -53, 133890780, 24182775>>,
       <<-1, -56, 93582766, 12746832, -1, -53, 133706989, 1578404>>,
       <<-1, -56, 112236582, 54286186, -1, -53, 133482469, 16279494>>,
       <<-1, -56, 130856211, 5202564, -1, -53, 133217289, 27410061>>,
       <<-1, -55, 74717989, 42835403, -1, -53, 132911530, 19960956>>,
       <<-1, -55, 83985113, 61363071, -1, -53, 132565285, 3138651>>,
       <<-1, -55, 93226655, 34304877, -1, -53, 132178659, 8461337>>,
       <<-1, -55, 102439799, 24535627, -1, -53, 131751770, 20494018>>,
       <<-1, -55, 111621739, 4348107, -1, -53, 131284748, 41549954>>,
       <<-1, -55, 120769677, 47040098, -1, -53, 130777736, 21923600>>,
       <<-1, -55, 129880828, 48544035, -1, -53, 130230887, 58309157>>,
       <<-1, -54, 69476208, 26412672, -1, -53, 129644369, 55099159>>,
       <<-1, -54, 73990839, 20090375, -1, -53, 129018360, 56523653>>,
       <<-1, -54, 78482931, 58971569, -1, -53, 128353051, 41671459>>,
       <<-1, -54, 82951117, 53471526, -1, -53, 127648644, 54809862>>,
       <<-1, -54, 87394036, 52701, -1, -53, 126905354, 67024074>>,
       <<-1, -54, 91810333, 9047012, -1, -53, 126123408, 38939935>>,
       <<-1, -54, 96198663, 63886164, -1, -53, 125303043, 50313216>>,
       <<-1, -54, 100557691, 48600711, -1, -53, 124444510, 26725207>>,
       <<-1, -54, 104886088, 43581343, -1, -53, 123548070, 2909809>>,
       <<-1, -54, 109182536, 17177326, -1, -53, 122613995, 50298767>>,
       <<-1, -54, 113445725, 53975134, -1, -53, 121642572, 3004261>>,
       <<-1, -54, 117674358, 46007745, -1, -53, 120634094, 55982283>>,
       <<-1, -54, 121867146, 54844904, -1, -53, 119588871, 20786291>>,
       <<-1, -54, 126022813, 2379912, -1, -53, 118507219, 57485060>>,
       <<-1, -54, 130140091, 32481514, -1, -53, 117389469, 64174535>>,
       <<-1, -54, 134217727, 67108845, -1, -53, 116235962, 5786800>>,
       <<-1, -53, 69127240, 16637725, -1, -53, 115047047, 41347800>>,
       <<-1, -53, 71124559, 44883244, -1, -53, 113823088, 47032644>>,
       <<-1, -53, 73100213, 57702166, -1, -53, 112564458, 11415520>>,
       <<-1, -53, 75053601, 1178883, -1, -53, 111271539, 27848367>>,
       <<-1, -53, 76984126, 8145276, -1, -53, 109944726, 18188101>>,
       <<-1, -53, 78891201, 7690841, -1, -53, 108584422, 60290219>>,
       <<-1, -53, 80774245, 5619370, -1, -53, 107191043, 44202525>>,
       <<-1, -53, 82632684, 29215013, -1, -53, 105765012, 66348001>>,
       <<-1, -53, 84465953, 4750011, -1, -53, 104306765, 18195242>>,
       <<-1, -53, 86273492, 37492243, -1, -53, 102816744, 47140929>>,
       <<-1, -53, 88054752, 20467651, -1, -53, 101295405, 10558534>>,
       <<-1, -53, 89809189, 48368599, -1, -53, 99743210, 3391170>>,
       <<-1, -53, 91536270, 25992228, -1, -53, 98160632, 13134217>>,
       <<-1, -53, 93235468, 14709506, -1, -53, 96548153, 44387654>>,
       <<-1, -53, 94906265, 41892792, -1, -53, 94906265, 41892834>>,
       <<-1, -53, 96548153, 44387635, -1, -53, 93235468, 14709526>>,
       <<-1, -53, 98160632, 13134198, -1, -53, 91536270, 25992248>>,
       <<-1, -53, 99743210, 3391173, -1, -53, 89809189, 48368596>>,
       <<-1, -53, 101295405, 10558516, -1, -53, 88054752, 20467672>>,
       <<-1, -53, 102816744, 47140912, -1, -53, 86273492, 37492264>>,
       <<-1, -53, 104306765, 18195245, -1, -53, 84465953, 4750008>>,
       <<-1, -53, 105765012, 66347984, -1, -53, 82632684, 29215035>>,
       <<-1, -53, 107191043, 44202509, -1, -53, 80774245, 5619392>>,
       <<-1, -53, 108584422, 60290222, -1, -53, 78891201, 7690838>>,
       <<-1, -53, 109944726, 18188103, -1, -53, 76984126, 8145272>>,
       <<-1, -53, 111271539, 27848351, -1, -53, 75053601, 1178906>>,
       <<-1, -53, 112564458, 11415523, -1, -53, 73100213, 57702162>>,
       <<-1, -53, 113823088, 47032647, -1, -53, 71124559, 44883240>>,
       <<-1, -53, 115047047, 41347802, -1, -53, 69127240, 16637721>>,
       <<-1, -53, 116235962, 5786786, -1, -53, 67108864, 14>>,
       <<-1, -53, 117389469, 64174537, -1, -54, 130140091, 32481507>>,
       <<-1, -53, 118507219, 57485062, -1, -54, 126022813, 2379904>>,
       <<-1, -53, 119588871, 20786278, -1, -54, 121867146, 54844954>>,
       <<-1, -53, 120634094, 55982285, -1, -54, 117674358, 46007737>>,
       <<-1, -53, 121642572, 3004263, -1, -54, 113445725, 53975126>>,
       <<-1, -53, 122613995, 50298769, -1, -54, 109182536, 17177318>>,
       <<-1, -53, 123548070, 2909798, -1, -54, 104886088, 43581393>>,
       <<-1, -53, 124444510, 26725208, -1, -54, 100557691, 48600703>>,
       <<-1, -53, 125303043, 50313218, -1, -54, 96198663, 63886156>>,
       <<-1, -53, 126123408, 38939925, -1, -54, 91810333, 9047064>>,
       <<-1, -53, 126905354, 67024076, -1, -54, 87394036, 52692>>,
       <<-1, -53, 127648644, 54809854, -1, -54, 82951117, 53471579>>,
       <<-1, -53, 128353051, 41671451, -1, -54, 78482931, 58971621>>,
       <<-1, -53, 129018360, 56523641, -1, -54, 73990839, 20090458>>,
       <<-1, -53, 129644369, 55099156, -1, -54, 69476208, 26412695>>,
       <<-1, -53, 130230887, 58309154, -1, -55, 129880828, 48544080>>,
       <<-1, -53, 130777736, 21923594, -1, -55, 120769677, 47040206>>,
       <<-1, -53, 131284748, 41549951, -1, -55, 111621739, 4348152>>,
       <<-1, -53, 131751770, 20494016, -1, -55, 102439799, 24535672>>,
       <<-1, -53, 132178659, 8461332, -1, -55, 93226655, 34304985>>,
       <<-1, -53, 132565285, 3138652, -1, -55, 83985113, 61363053>>,
       <<-1, -53, 132911530, 19960952, -1, -55, 74717989, 42835512>>,
       <<-1, -53, 133217289, 27410061, -1, -56, 130856211, 5202529>>,
       <<-1, -53, 133482469, 16279495, -1, -56, 112236582, 54286151>>,
       <<-1, -53, 133706989, 1578401, -1, -56, 93582766, 12747052>>,
       <<-1, -53, 133890780, 24182776, -1, -56, 74900443, 23744672>>,
       <<-1, -53, 134033787, 18015774, -1, -57, 112390610, 15714457>>,
       <<-1, -53, 134135966, 12518759, -1, -57, 74946098, 33021007>>,
       <<-1, -53, 134197285, 66432906, -1, -58, 74957514, 59367079>>,
       <<-1, -52, 67108864, 0, 1, -102, 83325295, 14811323>>,
       <<-1, -53, 134197285, 66432906, 1, -58, 74957514, 59366691>>,
       <<-1, -53, 134135966, 12518759, 1, -57, 74946098, 33020813>>,
       <<-1, -53, 134033787, 18015773, 1, -57, 112390610, 15714775>>,
       <<-1, -53, 133890780, 24182774, 1, -56, 74900443, 23744830>>,
       <<-1, -53, 133706989, 1578402, 1, -56, 93582766, 12746955>>,
       <<-1, -53, 133482469, 16279496, 1, -56, 112236582, 54286055>>,
       <<-1, -53, 133217289, 27410059, 1, -56, 130856211, 5202687>>,
       <<-1, -53, 132911530, 19960954, 1, -55, 74717989, 42835464>>,
       <<-1, -53, 132565285, 3138654, 1, -55, 83985113, 61363005>>,
       <<-1, -53, 132178659, 8461340, 1, -55, 93226655, 34304811>>,
       <<-1, -53, 131751770, 20494018, 1, -55, 102439799, 24535625>>,
       <<-1, -53, 131284748, 41549954, 1, -55, 111621739, 4348105>>,
       <<-1, -53, 130777736, 21923604, 1, -55, 120769677, 47040034>>,
       <<-1, -53, 130230887, 58309157, 1, -55, 129880828, 48544032>>,
       <<-1, -53, 129644369, 55099159, 1, -54, 69476208, 26412671>>,
       <<-1, -53, 129018360, 56523653, 1, -54, 73990839, 20090374>>,
       <<-1, -53, 128353051, 41671464, 1, -54, 78482931, 58971537>>,
       <<-1, -53, 127648644, 54809857, 1, -54, 82951117, 53471556>>,
       <<-1, -53, 126905354, 67024080, 1, -54, 87394036, 52669>>,
       <<-1, -53, 126123408, 38939940, 1, -54, 91810333, 9046981>>,
       <<-1, -53, 125303043, 50313222, 1, -54, 96198663, 63886134>>,
       <<-1, -53, 124444510, 26725213, 1, -54, 100557691, 48600681>>,
       <<-1, -53, 123548070, 2909803, 1, -54, 104886088, 43581371>>,
       <<-1, -53, 122613995, 50298774, 1, -54, 109182536, 17177295>>,
       <<-1, -53, 121642572, 3004268, 1, -54, 113445725, 53975104>>,
       <<-1, -53, 120634094, 55982277, 1, -54, 117674358, 46007773>>,
       <<-1, -53, 119588871, 20786284, 1, -54, 121867146, 54844932>>,
       <<-1, -53, 118507219, 57485067, 1, -54, 126022813, 2379882>>,
       <<-1, -53, 117389469, 64174528, 1, -54, 130140091, 32481541>>,
       <<-1, -53, 116235962, 5786792, 1, -53, 67108864, 4>>,
       <<-1, -53, 115047047, 41347808, 1, -53, 69127240, 16637711>>,
       <<-1, -53, 113823088, 47032653, 1, -53, 71124559, 44883230>>,
       <<-1, -53, 112564458, 11415512, 1, -53, 73100213, 57702179>>,
       <<-1, -53, 111271539, 27848358, 1, -53, 75053601, 1178896>>,
       <<-1, -53, 109944726, 18188110, 1, -53, 76984126, 8145262>>,
       <<-1, -53, 108584422, 60290210, 1, -53, 78891201, 7690854>>,
       <<-1, -53, 107191043, 44202516, 1, -53, 80774245, 5619382>>,
       <<-1, -53, 105765012, 66347992, 1, -53, 82632684, 29215025>>,
       <<-1, -53, 104306765, 18195252, 1, -53, 84465953, 4749998>>,
       <<-1, -53, 102816744, 47140920, 1, -53, 86273492, 37492255>>,
       <<-1, -53, 101295405, 10558524, 1, -53, 88054752, 20467663>>,
       <<-1, -53, 99743210, 3391181, 1, -53, 89809189, 48368587>>,
       <<-1, -53, 98160632, 13134228, 1, -53, 91536270, 25992216>>,
       <<-1, -53, 96548153, 44387644, 1, -53, 93235468, 14709517>>,
       <<-1, -53, 94906265, 41892823, 1, -53, 94906265, 41892802>>,
       <<-1, -53, 93235468, 14709538, 1, -53, 96548153, 44387624>>,
       <<-1, -53, 91536270, 25992237, 1, -53, 98160632, 13134209>>,
       <<-1, -53, 89809189, 48368608, 1, -53, 99743210, 3391162>>,
       <<-1, -53, 88054752, 20467684, 1, -53, 101295405, 10558505>>,
       <<-1, -53, 86273492, 37492252, 1, -53, 102816744, 47140922>>,
       <<-1, -53, 84465953, 4750021, 1, -53, 104306765, 18195234>>,
       <<-1, -53, 82632684, 29215048, 1, -53, 105765012, 66347974>>,
       <<-1, -53, 80774245, 5619379, 1, -53, 107191043, 44202518>>,
       <<-1, -53, 78891201, 7690851, 1, -53, 108584422, 60290212>>,
       <<-1, -53, 76984126, 8145286, 1, -53, 109944726, 18188094>>,
       <<-1, -53, 75053601, 1178893, 1, -53, 111271539, 27848360>>,
       <<-1, -53, 73100213, 57702176, 1, -53, 112564458, 11415514>>,
       <<-1, -53, 71124559, 44883227, 1, -53, 113823088, 47032655>>,
       <<-1, -53, 69127240, 16637708, 1, -53, 115047047, 41347810>>,
       <<-1, -53, 67108864, 1, 1, -53, 116235962, 5786794>>,
       <<-1, -54, 130140091, 32481536, 1, -53, 117389469, 64174529>>,
       <<-1, -54, 126022813, 2379876, 1, -53, 118507219, 57485069>>,
       <<-1, -54, 121867146, 54844926, 1, -53, 119588871, 20786285>>,
       <<-1, -54, 117674358, 46007767, 1, -53, 120634094, 55982278>>,
       <<-1, -54, 113445725, 53975156, 1, -53, 121642572, 3004256>>,
       <<-1, -54, 109182536, 17177289, 1, -53, 122613995, 50298775>>,
       <<-1, -54, 104886088, 43581365, 1, -53, 123548070, 2909804>>,
       <<-1, -54, 100557691, 48600734, 1, -53, 124444510, 26725202>>,
       <<-1, -54, 96198663, 63886127, 1, -53, 125303043, 50313224>>,
       <<-1, -54, 91810333, 9047035, 1, -53, 126123408, 38939931>>,
       <<-1, -54, 87394036, 52724, 1, -53, 126905354, 67024071>>,
       <<-1, -54, 82951117, 53471610, 1, -53, 127648644, 54809848>>,
       <<-1, -54, 78482931, 58971592, 1, -53, 128353051, 41671455>>,
       <<-1, -54, 73990839, 20090429, 1, -53, 129018360, 56523645>>,
       <<-1, -54, 69476208, 26412727, 1, -53, 129644369, 55099152>>,
       <<-1, -55, 129880828, 48544144, 1, -53, 130230887, 58309150>>,
       <<-1, -55, 120769677, 47040146, 1, -53, 130777736, 21923597>>,
       <<-1, -55, 111621739, 4348217, 1, -53, 131284748, 41549948>>,
       <<-1, -55, 102439799, 24535737, 1, -53, 131751770, 20494013>>,
       <<-1, -55, 93226655, 34304924, 1, -53, 132178659, 8461335>>,
       <<-1, -55, 83985113, 61363119, 1, -53, 132565285, 3138649>>,
       <<-1, -55, 74717989, 42835578, 1, -53, 132911530, 19960950>>,
       <<-1, -56, 130856211, 5202660, 1, -53, 133217289, 27410059>>,
       <<-1, -56, 112236582, 54286283, 1, -53, 133482469, 16279493>>,
       <<-1, -56, 93582766, 12746928, 1, -53, 133706989, 1578403>>,
       <<-1, -56, 74900443, 23744804, 1, -53, 133890780, 24182774>>,
       <<-1, -57, 112390610, 15714722, 1, -53, 134033787, 18015773>>,
       <<-1, -57, 74946098, 33020760, 1, -53, 134135966, 12518759>>,
       <<-1, -58, 74957514, 59366585, 1, -53, 134197285, 66432906>>,
       <<-1, -103, 111038035, 10390026, 1, -52, 67108864, 0>> >>

\* the largest |yaw| the table covers
MaxYaw == Len(SinCos) - 1

\* the Vec2 (sin, cos) of a row of the table, the sine with the sign sgn
Direction(row, sgn) ==
    Vec(F64(sgn * row[1], row[2], row[3], row[4]), F64(row[5], row[6], row[7], row[8]))

\* yaw_coordinate_change: (sin, cos) of yaw * PI / 180., for |yaw| <= MaxYaw.
\* The radians of -yaw are minus those of yaw, sin is odd and cos is even.
YawCoordinateChange(yaw) ==
    Direction(SinCos[Abs(yaw) + 1], IF yaw < 0 THEN -1 ELSE 1)

-----------------------------------------------------------------------------
(* Entity (players.rs:100-255) *)

PlayerRole(points, score) ==
    [type |-> "Player", points |-> points, score |-> score, author |-> 0]
BulletRole(author) ==
    [type |-> "Bullet", points |-> 0, score |-> 0, author |-> author]
PropRole == [type |-> "Prop", points |-> 0, score |-> 0, author |-> 0]

\* Entity::new
EntityNew(coords, tank, inner) ==
    [coordinates |-> coords,
     velocity |-> CoordEmpty,
     max_velocity |-> CoordEmpty,
     acceleration |-> CoordEmpty,
     yaw |-> 0,
     levels |-> [i \in 1..8 |-> 0],
     tank |-> tank,
     health |-> F32Int(100),
     inner |-> inner,
     shooting |-> FALSE]

\* Entity::level
Level(e, stat) == e.levels[stat + 1]

\* Entity::base_stat
BaseStat(e, stat) == Tanks[e.tank].base_stats[stat + 1]

\* Entity::stat: (stat_multiplier * base_stat) as i32, the multiplier being
\* 1 - level/20 for Reload and 1 + level/10 otherwise
StatOf(e, stat) ==
    IF stat = Reload
    THEN ((20 - Level(e, stat)) * BaseStat(e, stat)) \div 20
    ELSE ((10 + Level(e, stat)) * BaseStat(e, stat)) \div 10

\* an active_cannons that fires a cannon every (delay * speed) ticks
ActiveCannonsEvery(e, t) ==
    LET speed == StatOf(e, Reload)
    IN  SelectSeq(Tanks[e.tank].cannons,
                  LAMBDA c : RustRem(t, c.delay * speed) = 0)

\* Entity::active_cannons: the cannons c with c.delay * speed % tick == 0
ActiveCannons(e, t) ==
    LET speed == StatOf(e, Reload)
    IN  SelectSeq(Tanks[e.tank].cannons,
                  LAMBDA c : RustRem(c.delay * speed, t) = 0)

MAX_LEVEL == 10

\* an increment_level whose cap test is off by one
IncrementLevelPastCap(e, stat) ==
    IF Level(e, stat) + 1 > MAX_LEVEL THEN e
    ELSE IF e.inner.type = "Player"
         THEN IF e.inner.points <= 0 THEN e
              ELSE [e EXCEPT !.inner.points = @ - 1, !.levels[stat + 1] = @ + 1]
         ELSE e

\* Entity::increment_level
IncrementLevel(e, stat) ==
    IF Level(e, stat) + 1 >= MAX_LEVEL THEN e
    ELSE IF e.inner.type = "Player"
         THEN IF e.inner.points <= 0 THEN e
              ELSE [e EXCEPT !.inner.points = @ - 1, !.levels[stat + 1] = @ + 1]
         ELSE e

\* Stat::for_child
ForChild(i) ==
    CASE i = 5 -> BodyDamage
      [] i = 4 -> MaxHealth
      [] i = 3 -> MovementSpeed
      [] OTHER -> -1

\* the bullet of create_bullet, given its yaw and direction
BulletAlong(e, cannon, owner, yaw, direction) ==
    [coordinates |-> e.coordinates,
     velocity |-> direction,
     max_velocity |-> Vec2(0, 0),
     acceleration |-> Vec(F64Div10(X(direction)), F64Div10(Y(direction))),
     yaw |-> yaw,
     tank |-> cannon.bullet,
     levels |-> [i \in 1..8 |->
                   IF ForChild(i - 1) >= 0 THEN Level(e, ForChild(i - 1)) ELSE 0],
     health |-> F32Int(100),
     inner |-> BulletRole(owner),
     shooting |-> FALSE]

\* Entity::create_bullet
CreateBullet(e, cannon, owner) ==
    BulletAlong(e, cannon, owner, e.yaw + cannon.yaw,
                YawCoordinateChange(e.yaw + cannon.yaw))

\* Entity::move_once
MoveOnce(e) ==
    [e EXCEPT !.coordinates = Combine(e.coordinates, e.velocity),
              !.velocity = Cap(Combine(e.velocity, e.acceleration), e.max_velocity)]

\* f64::clamp(-extent, extent) of one number, extent whole world units in tenths
Clamp1(a, extent) ==
    IF F64Lt(F64Plain(extent), a) THEN F64Plain(extent)
    ELSE IF F64Lt(a, F64Plain(-extent)) THEN F64Plain(-extent)
    ELSE a

\* the clamp of update_movement: each component into [-extent, +extent]
Clamp(c, extent) ==
    IF Plain(c)
    THEN [x |-> IF c.x > extent THEN extent ELSE IF c.x < -extent THEN -extent ELSE c.x,
          y |-> IF c.y > extent THEN extent ELSE IF c.y < -extent THEN -extent ELSE c.y]
    ELSE Vec(Clamp1(X(c), extent), Clamp1(Y(c), extent))

\* Entity::update_movement(arena_extent): move_once with the new position
\* clamped to the arena
UpdateMovement(e, map_size) ==
    LET m == MoveOnce(e)
    IN  [m EXCEPT !.coordinates = Clamp(m.coordinates, map_size * Unit)]

\* Entity::damage(amount): health -= amount / stat(MaxHealth) * 100, the
\* amount being the f32 of a hit (hubs.rs:100) and health an f32
DamageHealth(e, amount) ==
    [e EXCEPT !.health =
       F32Sub(@, F32Mul100(F32Div(F32Int(amount), F32Int(StatOf(e, MaxHealth)))))]

\* the result of Entity::damage: health > 0
Survives(e) == e.health.s = 1

\* dx^2 + dy^2 < r^2
Within(dx, dy, r) ==
    /\ Abs(dx) < r
    /\ Abs(dy) < r
    /\ dx * dx + dy * dy < r * r

\* Entity::distance_from(other) < limit, limit in tenths: the Euclidean
\* distance, on the squares of the differences in thousandths (a distance
\* below the limit has both differences below it)
DistanceLess(a, b, limit) ==
    Within(MilliX(a.coordinates) - MilliX(b.coordinates),
           MilliY(a.coordinates) - MilliY(b.coordinates), 100 * limit)

\* Entity::change_direction
ChangeDirection(e, d) ==
    LET x_mod == (IF d.down THEN 1 ELSE 0) - (IF d.up THEN 1 ELSE 0)
        y_mod == (IF d.right THEN 1 ELSE 0) - (IF d.left THEN 1 ELSE 0)
    IN  [e EXCEPT !.acceleration = Vec2((x_mod * Unit) \div 10, (y_mod * Unit) \div 10),
                  !.max_velocity = Vec2(x_mod * Unit, y_mod * Unit)]

\* Entity::change_yaw
ChangeYaw(e, yaw) == IF yaw = e.yaw THEN e ELSE [e EXCEPT !.yaw = yaw]

\* UserEvent (events.rs:10-19)
SetShooting(b) == [e |-> "SetShooting", shooting |-> b]
YawEvent(y) == [e |-> "Yaw", yaw |-> y]
LevelUpgrade(s) == [e |-> "LevelUpgrade", stat |-> s]
DirectionChange(up, left, down, right) ==
    [e |-> "DirectionChange",
     direction |-> [up |-> up, left |-> left, down |-> down, right |-> right]]

\* Entity::handle_event
HandleEvent(e, ev) ==
    CASE ev.e = "DirectionChange" -> ChangeDirection(e, ev.direction)
      [] ev.e = "Yaw"             -> ChangeYaw(e, ev.yaw)
      [] ev.e = "SetShooting"     -> [e EXCEPT !.shooting = ev.shooting]
      [] ev.e = "LevelUpgrade"    -> IncrementLevel(e, ev.stat)

\* ServerEvent (events.rs:28-36)
EntityDelete(id) == [e |-> "EntityDelete", id |-> id]
EntityCreate(id, tank, position) ==
    [e |-> "EntityCreate", id |-> id, tank |-> tank, position |-> position]
Position(user, coordinates, yaw, velocity) ==
    [e |-> "Position", user |-> user, coordinates |-> coordinates,
     yaw |-> yaw, velocity |-> velocity]

\* the id a ServerEvent refers to
EventId(ev) == IF ev.e = "Position" THEN ev.user ELSE ev.id

\* UserMessage (events.rs:21-27)
MsgEvent(user, ev) == [m |-> "Event", user |-> user, event |-> ev]
GoingAway(id) == [m |-> "GoingAway", user |-> id]


-----------------------------------------------------------------------------
(* IdCounter (hubs.rs:12-19) *)

\* a counter that hands out its value without advancing
IdCounterNextStale(c) == c

\* IdCounter::next: the counter after `self.0 += 1`, which is also the id
\* returned (the u32 does not overflow within the runs)
IdCounterNext(c) == c + 1

-----------------------------------------------------------------------------
(* IndexSet<Id> and IndexMap<Id, Entity> as sequences in iteration order *)

SeqIndexOf(s, x) == CHOOSE i \in 1..Len(s) : s[i] = x

\* swap_remove at position i: the last element takes the place of the removed
SwapRemoveAt(s, i) ==
    LET n == Len(s)
    IN  IF i = n THEN SubSeq(s, 1, n - 1)
        ELSE [k \in 1..(n - 1) |-> IF k = i THEN s[n] ELSE s[k]]

\* IndexSet::insert: [set, ok]; ok iff the id was not in the set
SetInsert(set, id) ==
    IF id \in SeqRange(set) THEN [set |-> set, ok |-> FALSE]
    ELSE [set |-> Append(set, id), ok |-> TRUE]

\* IndexSet::swap_remove
SetSwapRemove(set, id) ==
    IF id \in SeqRange(set) THEN SwapRemoveAt(set, SeqIndexOf(set, id)) ELSE set

MapKeys(m) == {m[i].id : i \in 1..Len(m)}
MapHas(m, id) == \E i \in 1..Len(m) : m[i].id = id
MapIndex(m, id) == CHOOSE i \in 1..Len(m) : m[i].id = id
\* IndexMap::get
MapGet(m, id) == m[MapIndex(m, id)].e

\* IndexMap::insert: a present key keeps its place and takes the new value
MapInsert(m, id, e) ==
    IF MapHas(m, id) THEN [m EXCEPT ![MapIndex(m, id)].e = e]
    ELSE Append(m, [id |-> id, e |-> e])

\* IndexMap::swap_remove
MapSwapRemove(m, id) ==
    IF MapHas(m, id) THEN SwapRemoveAt(m, MapIndex(m, id)) ELSE m

\* IndexMap::extend: insert each pair of `other` in its order
RECURSIVE MapExtend(_, _)
MapExtend(m, other) ==
    IF other = <<>> THEN m
    ELSE MapExtend(MapInsert(m, Head(other).id, Head(other).e), Tail(other))

-----------------------------------------------------------------------------
(* PlayerPositions<100> (hubs.rs:217-253): [tiles, scale] *)

NumTiles == 100

\* PlayerPositions::new: scale = size as usize / 10
PlayerPositionsNew(size) ==
    [tiles |-> [i \in 0..(NumTiles - 1) |-> <<>>], scale |-> size \div 10]

\* PlayerPositions::index (`as usize` truncates the absolute value)
TileIndex(pp, pos) ==
    LET x == (IF Plain(pos) THEN Abs(pos.x) \div Unit
              ELSE F64Trunc(F64Abs(X(pos)))) \div pp.scale
        y == (IF Plain(pos) THEN Abs(pos.y) \div Unit
              ELSE F64Trunc(F64Abs(Y(pos)))) \div pp.scale
    IN  (NumTiles \div 10) * y + x

\* PlayerPositions::get_mut is Some
InRange(pp, pos) == TileIndex(pp, pos) < NumTiles

\* PlayerPositions::add: [pp, ok]
TilesAdd(pp, coords, id) ==
    IF InRange(pp, coords)
    THEN LET r == SetInsert(pp.tiles[TileIndex(pp, coords)], id)
         IN  [pp |-> [pp EXCEPT !.tiles[TileIndex(pp, coords)] = r.set], ok |-> r.ok]
    ELSE [pp |-> pp, ok |-> FALSE]

\* PlayerPositions::remove
TilesRemove(pp, coords, id) ==
    IF InRange(pp, coords)
    THEN [pp EXCEPT !.tiles[TileIndex(pp, coords)] = SetSwapRemove(@, id)]
    ELSE pp

-----------------------------------------------------------------------------
(* Hub (hubs.rs:61-213).  The operations act on a record h of the hub's    *)
(* fields [entities, tiles, queued_events, ids, map_size].                 *)

\* Hub::new
HubNew(cfg) ==
    [entities |-> <<>>,
     tiles |-> PlayerPositionsNew(cfg.map_size),
     queued_events |-> <<>>,
     ids |-> 0,
     map_size |-> cfg.map_size]

\* Hub::spawn_entity: [h, id]
SpawnEntity(h, entity) ==
    LET id == IdCounterNext(h.ids)
    IN  [h |-> [h EXCEPT
                 !.ids = id,
                 !.tiles = TilesAdd(h.tiles, entity.coordinates, id).pp,
                 !.queued_events = Append(@, EntityCreate(id, Tanks[entity.tank].id,
                                                          entity.coordinates)),
                 !.entities = MapInsert(@, id, entity)],
         id |-> id]

\* an apply-hits loop that does not replace a dead Prop
RECURSIVE ApplyHitsNoRespawn(_, _, _)
ApplyHitsNoRespawn(h, hits, rnd) ==
    IF hits = <<>> THEN h
    ELSE LET id == Head(hits).id
         IN  IF ~MapHas(h.entities, id) THEN ApplyHitsNoRespawn(h, Tail(hits), rnd)
             ELSE LET hurt == DamageHealth(MapGet(h.entities, id), Head(hits).damage)
                      h1 == [h EXCEPT !.entities = MapInsert(@, id, hurt)]
                  IN  IF Survives(hurt) THEN ApplyHitsNoRespawn(h1, Tail(hits), rnd)
                      ELSE ApplyHitsNoRespawn(
                             [h1 EXCEPT
                               !.entities = MapSwapRemove(@, id),
                               !.tiles = TilesRemove(@, hurt.coordinates, id),
                               !.queued_events = Append(@, EntityDelete(id))],
                             Tail(hits), rnd)

\* a remove_entity that leaves the entry in the map
RemoveEntityKeepsEntry(h, id) ==
    IF ~MapHas(h.entities, id) THEN h
    ELSE [h EXCEPT
           !.tiles = TilesRemove(@, MapGet(h.entities, id).coordinates, id),
           !.queued_events = Append(@, EntityDelete(id))]

\* a remove_entity that reports the delete whether or not the id is present
RemoveEntityAlways(h, id) ==
    IF ~MapHas(h.entities, id)
    THEN [h EXCEPT !.queued_events = Append(@, EntityDelete(id))]
    ELSE [h EXCEPT
           !.entities = MapSwapRemove(@, id),
           !.tiles = TilesRemove(@, MapGet(h.entities, id).coordinates, id),
           !.queued_events = Append(@, EntityDelete(id))]

\* Hub::remove_entity
RemoveEntity(h, id) ==
    IF ~MapHas(h.entities, id) THEN h
    ELSE LET entity == MapGet(h.entities, id)
         IN  [h EXCEPT
               !.entities = MapSwapRemove(@, id),
               !.tiles = TilesRemove(@, entity.coordinates, id),
               !.queued_events = Append(@, EntityDelete(id))]

\* the shooting loop of update_entity: one bullet per active cannon
RECURSIVE SpawnBullets(_, _, _, _)
SpawnBullets(h, entity, id, cannons) ==
    IF cannons = <<>> THEN h
    ELSE SpawnBullets(SpawnEntity(h, CreateBullet(entity, Head(cannons), id)).h,
                      entity, id, Tail(cannons))

\* update_entity from the test of `shooting` on (hubs.rs:93-98)
EntityShoots(h, moved, id, t) ==
    [h |-> IF moved.shooting
           THEN SpawnBullets(h, moved, id, ActiveCannons(moved, t))
           ELSE h,
     entity |-> moved]

\* update_entity from tiles.remove on (hubs.rs:87-98); added is the result
\* of tiles.add
EntityPlaced(h, old_coords, moved, id, t, added) ==
    EntityShoots(
      [h EXCEPT !.tiles = IF added.ok THEN TilesRemove(added.pp, old_coords, id)
                          ELSE added.pp,
                !.queued_events =
                    IF moved.inner.type # "Prop" \/ moved.coordinates # old_coords
                    THEN Append(@, Position(id, moved.coordinates, moved.yaw,
                                            moved.velocity))
                    ELSE @],
      moved, id, t)

\* update_entity from tiles.add on (hubs.rs:86-98); moved is the entity
\* after update_movement
EntityMoved(h, old_coords, moved, id, t) ==
    EntityPlaced(h, old_coords, moved, id, t, TilesAdd(h.tiles, moved.coordinates, id))

\* Hub::update_entity: [h, entity]
UpdateEntity(h, entity, id, t) ==
    EntityMoved(h, entity.coordinates, UpdateMovement(entity, h.map_size), id, t)

\* the hits one entity records against the ids of its tile, in tile order
RECURSIVE HitsOf(_, _, _, _)
HitsOf(ents, id, entity, others) ==
    IF others = <<>> THEN <<>>
    ELSE LET other_id == Head(others)
             rest == HitsOf(ents, id, entity, Tail(others))
         IN  IF id = other_id THEN rest
             ELSE IF ~MapHas(ents, other_id) THEN rest
             ELSE IF DistanceLess(entity, MapGet(ents, other_id),
                                  (Tanks[entity.tank].size
                                     + Tanks[MapGet(ents, other_id).tank].size) * Unit)
                  THEN <<[id |-> other_id, damage |-> StatOf(entity, BodyDamage)]>>
                         \o rest
                  ELSE rest

\* Hub::entity_collisions over the entities from position i on
RECURSIVE EntityCollisions(_, _, _)
EntityCollisions(pp, ents, i) ==
    IF i > Len(ents) THEN <<>>
    ELSE (IF InRange(pp, ents[i].e.coordinates)
          THEN HitsOf(ents, ents[i].id, ents[i].e,
                      pp.tiles[TileIndex(pp, ents[i].e.coordinates)])
          ELSE <<>>)
         \o EntityCollisions(pp, ents, i + 1)

\* the first loop of update_entities over the taken map: [h, entities]
RECURSIVE MoveAll(_, _, _, _)

\* the loop goes on with the hub and the entity that update_entity left
MoveOn(taken, i, t, r) ==
    MoveAll(r.h, [taken EXCEPT ![i].e = r.entity], i + 1, t)

MoveAll(h, taken, i, t) ==
    IF i > Len(taken) THEN [h |-> h, entities |-> taken]
    ELSE MoveOn(taken, i, t, UpdateEntity(h, taken[i].e, taken[i].id, t))

\* the last loop of update_entities; rnd holds the random_coordinate draws
RECURSIVE ApplyHits(_, _, _)
ApplyHits(h, hits, rnd) ==
    IF hits = <<>> THEN h
    ELSE LET id == Head(hits).id
         IN  IF ~MapHas(h.entities, id) THEN ApplyHits(h, Tail(hits), rnd)
             ELSE LET hurt == DamageHealth(MapGet(h.entities, id), Head(hits).damage)
                      h1 == [h EXCEPT !.entities = MapInsert(@, id, hurt)]
                  IN  IF Survives(hurt) THEN ApplyHits(h1, Tail(hits), rnd)
                      ELSE IF hurt.inner.type = "Prop"
                           THEN ApplyHits(
                                  RemoveEntity(
                                    SpawnEntity(h1, EntityNew(Head(rnd), hurt.tank,
                                                              PropRole)).h, id),
                                  Tail(hits), Tail(rnd))
                           ELSE ApplyHits(RemoveEntity(h1, id), Tail(hits), rnd)

\* update_entities from the merge on (hubs.rs:129-144), given the result of
\* the move loop and the hits recorded: [h, hits]
MergeAndApply(moved, collisions, rnd) ==
    [h |-> ApplyHits([moved.h EXCEPT !.entities =
                        MapExtend(moved.entities, moved.h.entities)],
                     collisions, rnd),
     hits |-> collisions]

\* update_entities from the collision pass on (hubs.rs:127-144)
CollideAndApply(moved, rnd) ==
    MergeAndApply(moved, EntityCollisions(moved.h.tiles, moved.entities, 1), rnd)

\* Hub::update_entities together with the hits it recorded: [h, hits]
UpdateEntitiesHits(h, t, rnd) ==
    CollideAndApply(MoveAll([h EXCEPT !.entities = <<>>], h.entities, 1, t), rnd)

\* Hub::update_entities
UpdateEntities(h, t, rnd) == UpdateEntitiesHits(h, t, rnd).h

\* Hub::random_coordinate: gen_range(-size..size) as f64
RandomCoordinates(map_size) == {n * Unit : n \in (-map_size)..(map_size - 1)}

\* the Props of a map
PropsOf(ents) == {i \in 1..Len(ents) : ents[i].e.inner.type = "Prop"}

\* the number of Props update_entities(t) removes; it does not depend on the
\* positions drawn, as the hits are recorded before any Prop is replaced
Respawns(h, t) ==
    LET after == UpdateEntities(h, t, [i \in 1..Cardinality(PropsOf(h.entities))
                                        |-> Vec2(0, 0)]).entities
    IN  Cardinality({i \in PropsOf(h.entities) : ~MapHas(after, h.entities[i].id)})

\* the draws one update_entities(t) consumes: a position (two calls of
\* random_coordinate) per Prop it replaces
DrawsOf(n, map_size) ==
    IF n = 0 THEN {<<>>}
    ELSE [1..n -> {Vec2(x, y) : x \in RandomCoordinates(map_size),
                                y \in RandomCoordinates(map_size)}]
RandomDraws(h, t) == DrawsOf(Respawns(h, t), h.map_size)


-----------------------------------------------------------------------------
(* The hub task: game_update_loop (hubs.rs:152-187), and the client        *)
(* sessions it spawns.  B is the record of bounds of the run:              *)
(* [maxTick, maxLag, maxBacklog, maxSent, maxInbound, clients, events]:     *)
(* the ticks run; the batches a session may be behind the broadcast, and   *)
(* the messages that may wait in the hub's two channels, when the interval *)
(* fires; the UserEvents sent in all; the UserEvents waiting in the        *)
(* inbound channel; the client streams and the UserEvents they send.       *)

HubRec ==
    [entities |-> entities, tiles |-> tiles, queued_events |-> queued_events,
     ids |-> ids, map_size |-> config.map_size]

SetHub(h) ==
    /\ entities' = h.entities
    /\ tiles' = h.tiles
    /\ queued_events' = h.queued_events
    /\ ids' = h.ids

\* the events pushed on the queue by a step that leaves `after`
Pushed(after) == SubSeq(after, Len(queued_events) + 1, Len(after))

\* frames on a client socket
UserInitFrame(you) == [f |-> "UserInit", you |-> you, events |-> <<>>]
BinaryFrame(batch) == [f |-> "Binary", you |-> 0, events |-> batch]

SessionNone == [state |-> "none", id |-> 0, next |-> 0, socket |-> <<>>]

\* `let _ = stream.send(Message::Binary(init));` in spawn_player: the future
\* of SinkExt::send is built and dropped without being polled, and a future
\* does nothing until it is polled: no frame is written
SendNotAwaited(socket, frame) == socket

\* a subscribe whose receiver replays the channel from its first batch
SubscribeFromStart(chan) == 1

\* broadcast::Sender::subscribe: the receiver sees the batches sent from now on
Subscribe(chan) == Len(chan) + 1

\* a publish that forgets to clear the queue
ClearQueueKeep(queue) == queue

\* `self.queued_events.clear()`
ClearQueue(queue) == <<>>

\* the lag of the slowest running session behind the broadcast
Lag(c) == Len(broadcast) + 1 - sessions[c].next
Lagging(B) == \E c \in B.clients : sessions[c].state = "running" /\ Lag(c) >= B.maxLag

\* the interval becomes ready (the first tick is ready at once: due starts TRUE)
TimerFire(B) ==
    /\ panic = "none"
    /\ ~due
    /\ tick < B.maxTick
    /\ ~Lagging(B)
    /\ Len(user_adder) + Len(received_updates) <= B.maxBacklog
    /\ due' = TRUE
    /\ lastStep' = "timer"
    /\ UNCHANGED <<entities, tiles, queued_events, ids, tick, panic, config,
                   user_adder, received_updates, broadcast, sessions>>
    /\ UNCHANGED <<enqueued, goneSent, goneHandled, nSent, marks>>
    /\ UNCHANGED obsVars

\* the tick branch after update_entities returned r (hubs.rs:162-164):
\* the queue is serialized, sent on the broadcast and cleared
Publish(r) ==
    /\ tickHits' = r.hits
    /\ SetHub([r.h EXCEPT !.queued_events = ClearQueue(r.h.queued_events)])
    /\ broadcast' = Append(broadcast, r.h.queued_events)
    /\ enqueued' = enqueued \o Pushed(r.h.queued_events)
    /\ marks' = Append(marks, [from |-> Len(enqueued),
                               to |-> Len(enqueued) + Len(Pushed(r.h.queued_events))])

\* no user message was handled since the last tick
NoMessage == [m |-> "none", user |-> 0, present |-> FALSE]

\* u32::MAX and the i32 limits, tick being kept as `tick as i32`
U32Max == -1
I32Max == 2147483647
I32Min == -I32Max - 1

\* `tick += 1` where the addition wraps (overflow checks off)
WrappingNext(t) == IF t = I32Max THEN I32Min ELSE t + 1

\* overflow checks of the build: on in a debug profile, off in a release one
OverflowChecks == BOOLEAN

\* update_entities(t) reaches `c.delay * speed % tick as i32` with tick = 0:
\* some entity is shooting and its tank has a cannon for the filter to test
RemByZero(ents, t) ==
    /\ t = 0
    /\ \E i \in 1..Len(ents) :
         ents[i].e.shooting /\ Tanks[ents[i].e.tank].cannons # <<>>

\* the task of the loop unwinds from a panic: the receivers of its two
\* channels (hubs.rs:152, 155) are dropped, and with them the streams and the
\* user messages still queued in them
Unwind ==
    /\ user_adder' = <<>>
    /\ received_updates' = <<>>
    /\ sessions' = [c \in DOMAIN sessions |->
                      IF sessions[c].state = "queued"
                      THEN [sessions[c] EXCEPT !.state = "dropped"]
                      ELSE sessions[c]]

\* the tick branch of the select (hubs.rs:160-166); a remainder by zero in
\* update_entities, or an overflow of `tick += 1` where overflow is checked,
\* panics and ends the task of the loop
Tick ==
    /\ panic = "none"
    /\ due
    /\ IF RemByZero(entities, tick)
       THEN /\ panic' = "rem_by_zero"
            /\ Unwind
            /\ lastStep' = "panic"
            /\ UNCHANGED <<entities, tiles, queued_events, ids, tick, due, broadcast>>
            /\ UNCHANGED <<enqueued, marks>>
            /\ UNCHANGED <<tickPre, tickHits, tickEnd>>
       ELSE /\ \E rnd \in RandomDraws(HubRec, tick) :
                 Publish(UpdateEntitiesHits(HubRec, tick, rnd))
            /\ \E checks \in OverflowChecks :
                 IF checks /\ tick = U32Max
                 THEN tick' = tick /\ panic' = "add_overflow" /\ Unwind
                 ELSE /\ tick' = WrappingNext(tick) /\ panic' = "none"
                      /\ UNCHANGED <<user_adder, received_updates, sessions>>
            /\ due' = FALSE
            /\ lastStep' = "tick"
            /\ tickPre' = [entities |-> entities, ids |-> ids, prev |-> tickEnd]
            /\ tickEnd' = entities'
    /\ lastMsg' = NoMessage
    /\ UNCHANGED config
    /\ UNCHANGED <<goneSent, goneHandled, nSent>>

\* Hub::spawn_player (hubs.rs:204-212) on the stream of client c
SpawnPlayer(h, c) ==
    LET entity == EntityNew(Vec2(0, 0), 1, PlayerRole(0, 0))
        r == SpawnEntity(h, entity)
    IN  [h |-> r.h,
         session |-> [state |-> "running",
                      id |-> r.id,
                      next |-> Subscribe(broadcast),
                      socket |-> SendNotAwaited(<<>>, UserInitFrame(r.id))]]

\* an admission branch polled without regard to the tick
AdmissionReadyUnbiased == user_adder # <<>>

\* `biased;` (hubs.rs:159): the branches are polled in the order written,
\* so the admission branch is taken only when the interval is not ready
AdmissionReady == ~due /\ user_adder # <<>>

\* a message branch polled in no particular order
MessageReadyUnbiased == received_updates # <<>>

\* the message branch is taken only when neither the interval nor the
\* admission channel is ready
MessageReady == ~due /\ user_adder = <<>> /\ received_updates # <<>>

\* the admission branch of the select (hubs.rs:167-172)
Admit ==
    /\ panic = "none"
    /\ AdmissionReady
    /\ LET r == SpawnPlayer(HubRec, Head(user_adder))
       IN  /\ SetHub(r.h)
           /\ sessions' = [sessions EXCEPT ![Head(user_adder)] = r.session]
           /\ enqueued' = enqueued \o Pushed(r.h.queued_events)
    /\ user_adder' = Tail(user_adder)
    /\ lastStep' = "admit"
    /\ UNCHANGED <<tick, panic, due, config, received_updates, broadcast>>
    /\ UNCHANGED <<goneSent, goneHandled, nSent, marks>>
    /\ UNCHANGED obsVars

\* the user-message branch of the select (hubs.rs:173-184)
HandleMessage ==
    /\ panic = "none"
    /\ MessageReady
    /\ LET message == Head(received_updates)
           h == IF message.m = "Event"
                THEN IF MapHas(entities, message.user)
                     THEN [HubRec EXCEPT !.entities =
                             MapInsert(@, message.user,
                                       HandleEvent(MapGet(entities, message.user),
                                                   message.event))]
                     ELSE HubRec
                ELSE RemoveEntity(HubRec, message.user)
       IN  /\ SetHub(h)
           /\ enqueued' = enqueued \o Pushed(h.queued_events)
           /\ goneHandled' =
                IF message.m = "GoingAway" /\ MapHas(entities, message.user)
                THEN Append(goneHandled, [id |-> message.user, at |-> Len(broadcast)])
                ELSE goneHandled
    /\ received_updates' = Tail(received_updates)
    /\ lastStep' = "message"
    /\ lastMsg' = [m |-> Head(received_updates).m,
                   user |-> Head(received_updates).user,
                   present |-> MapHas(entities, Head(received_updates).user)]
    /\ UNCHANGED <<tickPre, tickHits, tickEnd>>
    /\ UNCHANGED <<tick, panic, due, config, user_adder, broadcast, sessions>>
    /\ UNCHANGED <<goneSent, nSent, marks>>

\* HubManager::create_client sends one more stream on the admission channel
\* (hubs.rs:47).  Once the task of the loop has panicked the receiver is gone:
\* the send returns Err and the stream is dropped with it (hubs.rs:47-49)
ClientArrives(B) ==
    /\ \E c \in B.clients :
         /\ sessions[c].state = "none"
         /\ \A d \in B.clients : d < c => sessions[d].state # "none"
         /\ IF panic = "none"
            THEN /\ sessions' = [sessions EXCEPT ![c].state = "queued"]
                 /\ user_adder' = Append(user_adder, c)
            ELSE /\ sessions' = [sessions EXCEPT ![c].state = "dropped"]
                 /\ user_adder' = user_adder
    /\ lastStep' = "arrive"
    /\ UNCHANGED <<entities, tiles, queued_events, ids, tick, panic, due, config,
                   received_updates, broadcast>>
    /\ UNCHANGED <<enqueued, goneSent, goneHandled, nSent, marks>>
    /\ UNCHANGED obsVars

\* ClientSession: a Binary frame from the socket decodes to a UserEvent and is
\* sent to the hub tagged with the session's id.  Once the task of the loop
\* has panicked the channel is closed: the send fails, the session breaks and
\* the GoingAway it sends on its way out fails as well
SessionEvent(B) ==
    /\ nSent < B.maxSent
    /\ Len(received_updates) < B.maxInbound
    /\ \E c \in B.clients, ev \in B.events :
         /\ sessions[c].state = "running"
         /\ IF panic = "none"
            THEN /\ received_updates' = Append(received_updates, MsgEvent(sessions[c].id, ev))
                 /\ sessions' = sessions
            ELSE /\ received_updates' = received_updates
                 /\ sessions' = [sessions EXCEPT ![c].state = "ended"]
    /\ nSent' = nSent + 1
    /\ lastStep' = "event"
    /\ UNCHANGED <<entities, tiles, queued_events, ids, tick, panic, due, config, user_adder,
                   broadcast>>
    /\ UNCHANGED <<enqueued, goneSent, goneHandled, marks>>
    /\ UNCHANGED obsVars

\* ClientSession: a batch from the broadcast is written to the socket
SessionForward(B) ==
    /\ \E c \in B.clients :
         /\ sessions[c].state = "running"
         /\ sessions[c].next <= Len(broadcast)
         /\ sessions' = [sessions EXCEPT
                           ![c].socket = Append(@, BinaryFrame(broadcast[sessions[c].next])),
                           ![c].next = @ + 1]
    /\ lastStep' = "forward"
    /\ UNCHANGED <<entities, tiles, queued_events, ids, tick, panic, due, config, user_adder,
                   received_updates, broadcast>>
    /\ UNCHANGED <<enqueued, goneSent, goneHandled, nSent, marks>>
    /\ UNCHANGED obsVars

\* ClientSession: the loop breaks (socket closed, error, bad frame, broadcast
\* closed); on exit the session sends GoingAway(self_id) to the hub, a send
\* that fails once the task of the loop has panicked
SessionExit(B) ==
    /\ \E c \in B.clients :
         /\ sessions[c].state = "running"
         /\ sessions' = [sessions EXCEPT ![c].state = "ended"]
         /\ IF panic = "none"
            THEN /\ received_updates' = Append(received_updates, GoingAway(sessions[c].id))
                 /\ goneSent' = Append(goneSent, [id |-> sessions[c].id,
                                                  at |-> Len(broadcast),
                                                  live |-> MapHas(entities, sessions[c].id)])
            ELSE /\ received_updates' = received_updates
                 /\ goneSent' = goneSent
    /\ lastStep' = "exit"
    /\ UNCHANGED <<entities, tiles, queued_events, ids, tick, panic, due, config, user_adder,
                   broadcast>>
    /\ UNCHANGED <<enqueued, goneHandled, nSent, marks>>
    /\ UNCHANGED obsVars

\* nothing observed yet
ObsInit ==
    /\ tickPre = [entities |-> <<>>, ids |-> 0, prev |-> <<>>]
    /\ tickHits = <<>>
    /\ tickEnd = <<>>
    /\ lastMsg = NoMessage

\* the lone grid takes no part in a hub run
PpIdle == positions = PlayerPositionsNew(10) /\ posSize = 10 /\ posOp = [op |-> "none"]

\* the lone bullet takes no part in a hub run
BlIdle ==
    /\ blBullet = EntityNew(Vec2(0, 0), 2, BulletRole(0))
    /\ blCreated = blBullet
    /\ blPrev = blBullet
    /\ blMoves = 0

\* the manager and the lone entity take no part in a hub run
MgrIdle == hubs = <<>> /\ mgrIds = 0 /\ passed = 0 /\ dropped = {}
LvIdle ==
    /\ lvEntity = EntityNew(Vec2(0, 0), 1, PlayerRole(0, 0))
    /\ lvPrev = lvEntity
    /\ lvStat = -1
    /\ lvPoints0 = 0
    /\ lvCount = 0
    /\ lvSame = TRUE

\* a hub right after create_hub: Hub::new, the first stream already sent on
\* the admission channel, the loop about to start
HubInit(cfg, clients) ==
    /\ entities = HubNew(cfg).entities
    /\ tiles = HubNew(cfg).tiles
    /\ queued_events = HubNew(cfg).queued_events
    /\ ids = HubNew(cfg).ids
    /\ tick = 0
    /\ panic = "none"
    /\ due = TRUE
    /\ config = cfg
    /\ user_adder = <<1>>
    /\ received_updates = <<>>
    /\ broadcast = <<>>
    /\ sessions = [c \in clients |->
                     IF c = 1 THEN [SessionNone EXCEPT !.state = "queued"]
                     ELSE SessionNone]
    /\ enqueued = <<>>
    /\ goneSent = <<>>
    /\ goneHandled = <<>>
    /\ lastStep = "init"
    /\ nSent = 0
    /\ marks = <<>>
    /\ ObsInit

-----------------------------------------------------------------------------
(* Spec: one hub, two clients, a few ticks *)

MaxTick == 3
MaxSent == 1
MaxInbound == 1
MaxLag == 1
Clients == {1, 2}
UserEvents == {SetShooting(TRUE), DirectionChange(FALSE, FALSE, TRUE, FALSE)}
HubConfig == [max_player_count |-> 2, map_size |-> 20]

MainBounds ==
    [maxTick |-> MaxTick, maxLag |-> MaxLag,
     maxBacklog |-> MaxInbound + 2 * Cardinality(Clients), maxSent |-> MaxSent,
     maxInbound |-> MaxInbound, clients |-> Clients, events |-> UserEvents]

Init == HubInit(HubConfig, Clients) /\ MgrIdle /\ LvIdle /\ PpIdle /\ BlIdle

Next ==
    \/ TimerFire(MainBounds) /\ UNCHANGED <<mgrVars, lvVars, ppVars, blVars>>
    \/ Tick /\ UNCHANGED <<mgrVars, lvVars, ppVars, blVars>>
    \/ Admit /\ UNCHANGED <<mgrVars, lvVars, ppVars, blVars>>
    \/ HandleMessage /\ UNCHANGED <<mgrVars, lvVars, ppVars, blVars>>
    \/ ClientArrives(MainBounds) /\ UNCHANGED <<mgrVars, lvVars, ppVars, blVars>>
    \/ SessionEvent(MainBounds) /\ UNCHANGED <<mgrVars, lvVars, ppVars, blVars>>
    \/ SessionForward(MainBounds) /\ UNCHANGED <<mgrVars, lvVars, ppVars, blVars>>
    \/ SessionExit(MainBounds) /\ UNCHANGED <<mgrVars, lvVars, ppVars, blVars>>

Spec == Init /\ [][Next]_vars


-----------------------------------------------------------------------------
(* Properties of the hub run (Spec) *)

\* every event the hub has published, in order
Published == Flatten(broadcast)

Creates == SelectSeq(enqueued, LAMBDA ev : ev.e = "EntityCreate")

IsDelete(ev, id) == ev.e = "EntityDelete" /\ ev.id = id
IsCreate(ev, id) == ev.e = "EntityCreate" /\ ev.id = id
HasDelete(batch, id) == \E i \in 1..Len(batch) : IsDelete(batch[i], id)

\* the EntityCreate events cs carry the ids 1, 2, ... in rising order, and the
\* map holds no id twice and none that is not in cs
IdUnique(cs) ==
    /\ \A i \in 1..Len(cs) :
         /\ cs[i].id > 0
         /\ i = 1 => cs[i].id = 1
         /\ i > 1 => cs[i].id > cs[i - 1].id
    /\ \A i, j \in 1..Len(entities) : i # j => entities[i].id # entities[j].id
    /\ \A i \in 1..Len(entities) :
         \E k \in 1..Len(cs) : cs[k].id = entities[i].id

\* C2: the ids spawn_entity hands out start at 1, are never 0 and strictly
\* increase (so none is handed out twice, removed or not), and the entities
\* map never holds an id twice nor an id that was not handed out, in every
\* state of the run, the merge-back of bullets in update_entities included.
C2_IdUnique == IdUnique(Creates)

\* a bullet has been merged back into the map after an entity was removed
C2_Witness ==
    /\ \E i \in 1..Len(entities) : entities[i].e.inner.type = "Bullet"
    /\ \E i \in 1..Len(enqueued) : enqueued[i].e = "EntityDelete"
    /\ ids >= 3

\* every Position of the sequence p comes after an EntityCreate for its id
\* with no EntityDelete for it in between
CreateBeforePosition(p) ==
    \A i \in 1..Len(p) :
      p[i].e = "Position" =>
        \E j \in 1..(i - 1) :
          /\ IsCreate(p[j], p[i].user)
          /\ \A k \in (j + 1)..(i - 1) : ~IsDelete(p[k], p[i].user)

\* C3: in the sequence of published events, every Position for an id comes
\* after an EntityCreate for that id with no EntityDelete for it in between.
C3_CreateBeforePosition == CreateBeforePosition(Published)

\* Positions of a player and of a bullet were published, and a delete as well
C3_Witness ==
    /\ \E i \in 1..Len(Published) :
         Published[i].e = "Position" /\ Published[i].user = 1
    /\ \E i \in 1..Len(Published) :
         /\ Published[i].e = "Position"
         /\ \E j \in 1..Len(Published) :
              /\ IsCreate(Published[j], Published[i].user)
              /\ Published[j].tank = 1
    /\ \E i \in 1..Len(Published) : Published[i].e = "EntityDelete"

\* at most one EntityDelete is ever published or queued for an id
AtMostOneDelete ==
    \A i, j \in 1..Len(enqueued) :
      (enqueued[i].e = "EntityDelete" /\ enqueued[j].e = "EntityDelete"
         /\ enqueued[i].id = enqueued[j].id) => i = j

\* no batch after the one carrying EntityDelete{id} has an event for id
NothingAfterDelete ==
    \A i \in 1..Len(broadcast) : \A j \in (i + 1)..Len(broadcast) :
      \A k \in 1..Len(broadcast[i]) :
        broadcast[i][k].e = "EntityDelete" =>
          \A l \in 1..Len(broadcast[j]) :
            EventId(broadcast[j][l]) # broadcast[i][k].id

\* the original statement of C4: a GoingAway sent for a live player is
\* followed by its EntityDelete in one of the next two batches
DeleteWithinTwoTicks ==
    \A n \in 1..Len(goneSent) :
      (goneSent[n].live /\ Len(broadcast) >= goneSent[n].at + 2) =>
        \/ HasDelete(broadcast[goneSent[n].at + 1], goneSent[n].id)
        \/ HasDelete(broadcast[goneSent[n].at + 2], goneSent[n].id)

C4_Original == DeleteWithinTwoTicks /\ AtMostOneDelete /\ NothingAfterDelete

\* once the hub has handled GoingAway(id) for a live id, the EntityDelete is
\* queued, and it is in the first batch sent after that
DeleteInNextBatch ==
    \A n \in 1..Len(goneHandled) :
      IF Len(broadcast) > goneHandled[n].at
      THEN HasDelete(broadcast[goneHandled[n].at + 1], goneHandled[n].id)
      ELSE HasDelete(queued_events, goneHandled[n].id)

\* C4 (amended): when the hub handles GoingAway(id) for a live player, the
\* EntityDelete for id is in the next batch the hub publishes; at most one
\* EntityDelete is ever published for an id; no batch after the one carrying
\* it has an event for that id.
C4_Departure == DeleteInNextBatch /\ AtMostOneDelete /\ NothingAfterDelete

\* a GoingAway for a live player was handled and its delete published, and
\* another GoingAway found its player already killed by a collision
C4_Witness ==
    /\ \E n \in 1..Len(goneHandled) : Len(broadcast) > goneHandled[n].at
    /\ \E n \in 1..Len(goneSent) :
         /\ ~goneSent[n].live
         /\ \E i \in 1..Len(Published) : IsDelete(Published[i], goneSent[n].id)

\* the first Binary frame on a socket
FirstBatch(socket) ==
    LET bs == SelectSeq(socket, LAMBDA fr : fr.f = "Binary")
    IN  IF bs = <<>> THEN <<>> ELSE <<bs[1].events>>

\* C5: every admitted stream got a Player at the origin with the default
\* tank, its first frame is UserInit with `you` = that id, and the first
\* batch it receives carries the EntityCreate for that id.
C5_Admission ==
    \A c \in Clients :
      sessions[c].state \in {"running", "ended"} =>
        /\ \E i \in 1..Len(enqueued) :
             enqueued[i] = EntityCreate(sessions[c].id, 0, Vec2(0, 0))
        /\ sessions[c].socket # <<>> =>
             sessions[c].socket[1] = UserInitFrame(sessions[c].id)
        /\ \A b \in SeqRange(FirstBatch(sessions[c].socket)) :
             \E i \in 1..Len(b) : IsCreate(b[i], sessions[c].id)

\* the part of C5 the code keeps: the Player is created, and the first batch
\* the client receives carries its EntityCreate
C5_CreateInFirstBatch ==
    \A c \in Clients :
      sessions[c].state \in {"running", "ended"} =>
        /\ \E i \in 1..Len(enqueued) :
             enqueued[i] = EntityCreate(sessions[c].id, 0, Vec2(0, 0))
        /\ \A b \in SeqRange(FirstBatch(sessions[c].socket)) :
             \E i \in 1..Len(b) : IsCreate(b[i], sessions[c].id)

WithinCap(e) ==
    /\ ~F64Lt(F64Abs(X(e.max_velocity)), F64Abs(X(e.velocity)))
    /\ ~F64Lt(F64Abs(Y(e.max_velocity)), F64Abs(Y(e.velocity)))

\* C8: right after update_entities returns, every entity of the map (bullets
\* spawned in that tick included) has each velocity component within the
\* absolute value of its max_velocity component.
C8_VelocityCap ==
    lastStep = "tick" => \A i \in 1..Len(entities) : WithinCap(entities[i].e)

\* the part of C8 the code keeps: the entities update_entities has moved
C8_MovedWithinCap ==
    lastStep = "tick" =>
      \A i \in 1..Len(entities) :
        (\E k \in 1..Len(broadcast[Len(broadcast)]) :
           /\ broadcast[Len(broadcast)][k].e = "Position"
           /\ broadcast[Len(broadcast)][k].user = entities[i].id)
        => WithinCap(entities[i].e)

PrevTo(k) == IF k = 1 THEN 0 ELSE marks[k - 1].to

\* every enqueued event is published exactly once, in order, and the queue
\* is empty after a publish
PublishedOnce ==
    /\ Published \o queued_events = enqueued
    /\ lastStep = "tick" => queued_events = <<>>
    /\ Len(marks) = Len(broadcast)

\* C10 (original): the batch of tick T is exactly what update_entities(T)
\* enqueued, in order; every event is published exactly once; the queue is
\* empty after each publish.
C10_Original ==
    /\ PublishedOnce
    /\ \A k \in 1..Len(marks) :
         broadcast[k] = SubSeq(enqueued, marks[k].from + 1, marks[k].to)

\* C10 (amended): the batch of tick T is exactly what was enqueued since the
\* previous publish (by spawn_player and GoingAway between the ticks, then
\* by update_entities(T)), in order; every event is published exactly once;
\* the queue is empty after each publish.
C10_BatchContents ==
    /\ PublishedOnce
    /\ \A k \in 1..Len(marks) :
         broadcast[k] = SubSeq(enqueued, PrevTo(k) + 1, marks[k].to)

\* a batch carries events enqueued between the ticks and events of its own
\* update_entities call
C10_Witness ==
    \E k \in 1..Len(marks) :
      /\ Len(broadcast) >= k
      /\ marks[k].from > PrevTo(k)
      /\ marks[k].to > marks[k].from


-----------------------------------------------------------------------------
(* What a tick did, read from the state right after it: tickPre holds the  *)
(* entities and the id counter as the tick began, tickHits the hits it     *)
(* recorded, and the last batch of the broadcast what it published.        *)

AfterTick == lastStep = "tick"

\* the number of the tick that ran last
TickRun == tick - 1

LastBatch == broadcast[Len(broadcast)]

\* positions in `entities` of the entities spawned during the last tick, and
\* of those that were in the map when it began
BornInTick == {i \in 1..Len(entities) : entities[i].id > tickPre.ids}
OlderInTick == {i \in 1..Len(entities) : entities[i].id <= tickPre.ids}

\* two entities lie in the same grid cell within collision distance
Touching(a, b) ==
    /\ InRange(tiles, a.coordinates)
    /\ InRange(tiles, b.coordinates)
    /\ TileIndex(tiles, a.coordinates) = TileIndex(tiles, b.coordinates)
    /\ DistanceLess(a, b, (Tanks[a.tank].size + Tanks[b.tank].size) * Unit)

WasHit(id) == \E k \in 1..Len(tickHits) : tickHits[k].id = id

\* C12: a bullet spawned during update_entities(T) takes part in the collision
\* pass of that call: when it lies within collision distance of another
\* entity (not its author) in its grid cell, a hit on the bullet is recorded
\* in tick T.
C12_SameTickVisible ==
    AfterTick =>
      \A i \in BornInTick, j \in OlderInTick :
        (/\ entities[i].e.inner.type = "Bullet"
         /\ entities[j].id # entities[i].e.inner.author
         /\ Touching(entities[i].e, entities[j].e))
        => WasHit(entities[i].id)

\* the bullets of a tick are in no hit that tick records
C12_BornUnseen ==
    AfterTick => \A i \in BornInTick : ~WasHit(entities[i].id)

\* the Position events of the last batch that name the id
PositionsFor(id) ==
    {k \in 1..Len(LastBatch) : LastBatch[k].e = "Position" /\ LastBatch[k].user = id}

\* what a Position event reports, and the same of an entity
Reported(ev) == <<ev.coordinates, ev.yaw, ev.velocity>>
Motion(e) == <<e.coordinates, e.yaw, e.velocity>>

\* C13: a Position event is enqueued for a non-Prop entity only in ticks
\* where its coordinates, yaw or velocity differ from their values at the
\* previous tick, and for a Prop exactly in the ticks where its coordinates
\* changed.
C13_PositionOnlyOnChange ==
    AfterTick =>
      \A i \in 1..Len(tickPre.prev) :
        LET id == tickPre.prev[i].id
            was == tickPre.prev[i].e
        IN  /\ was.inner.type # "Prop" =>
                 \A k \in PositionsFor(id) : Reported(LastBatch[k]) # Motion(was)
            /\ (was.inner.type = "Prop" /\ MapHas(tickPre.entities, id)) =>
                 (PositionsFor(id) # {}
                    <=> \E k \in PositionsFor(id) :
                          LastBatch[k].coordinates # was.coordinates)

\* what the code does: every non-Prop entity in the map when a tick begins
\* gets exactly one Position event in that tick's batch
C13_PositionEveryTick ==
    AfterTick =>
      \A i \in 1..Len(tickPre.entities) :
        tickPre.entities[i].e.inner.type # "Prop" =>
          Cardinality(PositionsFor(tickPre.entities[i].id)) = 1

\* the hub took a stream from the admission channel, a message from the
\* inbound channel, in this step
TookAdmission == Len(user_adder') < Len(user_adder)
TookMessage == Len(received_updates') < Len(received_updates)

WorldVars == <<entities, tiles, ids, queued_events>>

\* C14: whenever the interval is ready the tick runs before any pending
\* admission or user message is handled (until it has run, nothing else
\* changes the world, so an event that is ready together with tick T acts
\* from tick T+1); a pending admission is handled before any pending user
\* message; and user messages are taken from the inbound channel in the order
\* they arrived.
C14_SelectPriority ==
    [][/\ (TookAdmission \/ TookMessage) => ~due
       /\ (due /\ tick' = tick) => UNCHANGED WorldVars
       /\ TookMessage =>
            /\ user_adder = <<>>
            /\ received_updates' = Tail(received_updates)
            /\ lastMsg'.m = Head(received_updates).m
            /\ lastMsg'.user = Head(received_updates).user
       /\ Len(received_updates') > Len(received_updates) =>
            SubSeq(received_updates', 1, Len(received_updates)) = received_updates
      ]_vars

\* a tick has just run while a stream waited in the admission channel and a
\* user message in the inbound channel
C14_Witness ==
    AfterTick /\ tick > 1 /\ user_adder # <<>> /\ received_updates # <<>>

\* the message at the head of the inbound channel names no entity of the map
HeadAbsent ==
    /\ received_updates # <<>>
    /\ ~MapHas(entities, Head(received_updates).user)

\* C16: a GoingAway (remove_entity) or an Event for an id that is not in the
\* entities map leaves entities, the grid, the id counter and queued_events
\* as they were, no EntityDelete is enqueued, the message is consumed and the
\* loop goes on to its next iteration.
C16_MissingEntityNoOp ==
    [][(TookMessage /\ HeadAbsent) =>
         /\ UNCHANGED WorldVars
         /\ enqueued' = enqueued
         /\ received_updates' = Tail(received_updates)
         /\ lastStep' = "message"
         /\ ~lastMsg'.present
      ]_vars

\* the loop has just handled an Event for an entity that is gone
C16_WitnessEvent ==
    /\ lastStep = "message"
    /\ lastMsg.m = "Event"
    /\ ~lastMsg.present

\* the loop has just handled a GoingAway for an entity that is gone
C16_Witness ==
    /\ lastStep = "message"
    /\ lastMsg.m = "GoingAway"
    /\ ~lastMsg.present

\* the bullets the last tick spawned from cannon k of the entity that was at
\* position i of the map when the tick began
BulletsOf(i, k) ==
    {j \in BornInTick :
       /\ entities[j].e.inner = BulletRole(tickPre.entities[i].id)
       /\ entities[j].e.tank = Tanks[tickPre.entities[i].e.tank].cannons[k].bullet
       /\ entities[j].e.yaw = tickPre.entities[i].e.yaw
                                + Tanks[tickPre.entities[i].e.tank].cannons[k].yaw}

\* delay * stat(Reload) of cannon k of an entity
FireProduct(e, k) == Tanks[e.tank].cannons[k].delay * StatOf(e, Reload)

\* the product p is 0 modulo the tick number whose i32 view is t: a negative
\* t is the tick t + 2^32, above every i32 product, which divides none but 0
ModTickZero(p, t) == IF t > 0 THEN p % t = 0 ELSE p = 0

\* C17 as stated, for every tick > 0 of the u32 counter: an entity that is
\* shooting spawns exactly one bullet for each of its cannons whose
\* delay * stat(Reload) is 0 modulo the tick number and none for its other
\* cannons, and a cannon with a positive product never fires at a tick
\* greater than the product.
C17_ModuloEveryTick ==
    (AfterTick /\ panic = "none" /\ TickRun # 0) =>
      \A i \in 1..Len(tickPre.entities) :
        \A k \in 1..Len(Tanks[tickPre.entities[i].e.tank].cannons) :
          /\ Cardinality(BulletsOf(i, k))
               = IF /\ tickPre.entities[i].e.shooting
                    /\ ModTickZero(FireProduct(tickPre.entities[i].e, k), TickRun)
                 THEN 1 ELSE 0
          /\ (BulletsOf(i, k) # {} /\ FireProduct(tickPre.entities[i].e, k) > 0)
               => (TickRun > 0 /\ TickRun <= FireProduct(tickPre.entities[i].e, k))

\* tick 2^32 - 1 has run for a shooting player, `tick as i32` being -1: both
\* its cannons (products 2 and 1) fired
C17_LateTickFires ==
    /\ AfterTick
    /\ TickRun = U32Max
    /\ \E i \in 1..Len(tickPre.entities) :
         /\ tickPre.entities[i].e.shooting
         /\ BulletsOf(i, 1) # {}
         /\ BulletsOf(i, 2) # {}

\* C17, for the ticks 0 < tick < 2^31 (those whose `tick as i32` is positive):
\* an entity that is shooting spawns exactly one bullet for each of its
\* cannons whose delay * stat(Reload) is 0 modulo the tick number and none for
\* its other cannons, an entity that is not shooting spawns none, and nothing
\* else is spawned; so a cannon with a positive product fires only at ticks
\* that divide it, never at a later one.  At a tick >= 2^31 the divisor
\* `tick as i32` is the negative tick - 2^32, and a shooting entity's cannon
\* fires exactly when its product is a multiple of 2^32 - tick.
C17_CannonRule ==
    /\ (AfterTick /\ TickRun > 0) =>
          /\ \A i \in 1..Len(tickPre.entities) :
               \A k \in 1..Len(Tanks[tickPre.entities[i].e.tank].cannons) :
                 /\ Cardinality(BulletsOf(i, k))
                      = IF /\ tickPre.entities[i].e.shooting
                           /\ FireProduct(tickPre.entities[i].e, k) % TickRun = 0
                        THEN 1 ELSE 0
                 /\ (BulletsOf(i, k) # {} /\ FireProduct(tickPre.entities[i].e, k) > 0)
                      => TickRun <= FireProduct(tickPre.entities[i].e, k)
          /\ \A j \in BornInTick :
               \E i \in 1..Len(tickPre.entities) :
                 \E k \in 1..Len(Tanks[tickPre.entities[i].e.tank].cannons) :
                   j \in BulletsOf(i, k)
    /\ (AfterTick /\ panic = "none" /\ TickRun < 0) =>
          \A i \in 1..Len(tickPre.entities) :
            \A k \in 1..Len(Tanks[tickPre.entities[i].e.tank].cannons) :
              Cardinality(BulletsOf(i, k))
                = IF /\ tickPre.entities[i].e.shooting
                     /\ FireProduct(tickPre.entities[i].e, k) % (-TickRun) = 0
                  THEN 1 ELSE 0

\* tick 2 has run for a shooting player: its front cannon (product 2) fired
\* and its rear cannon (product 1) did not
C17_Witness ==
    /\ AfterTick
    /\ TickRun = 2
    /\ \E i \in 1..Len(tickPre.entities) :
         /\ tickPre.entities[i].e.shooting
         /\ BulletsOf(i, 1) # {}
         /\ BulletsOf(i, 2) = {}

\* C18: the entities map iterates in the order in which the surviving
\* entities were inserted, which is the ascending order of their ids.
C18_InsertionOrder ==
    \A i, j \in 1..Len(entities) : i < j => entities[i].id < entities[j].id

\* what holds instead: the ids of the map are distinct, whatever their order
C18_DistinctIds ==
    \A i, j \in 1..Len(entities) : i # j => entities[i].id # entities[j].id

-----------------------------------------------------------------------------
(* SpecJoin: the hub of Spec with clients that arrive, receive batches and *)
(* leave but send no event: what a client that joins late is sent.         *)

JoinMaxTick == 4
JoinMaxLag == 2
JoinBounds ==
    [maxTick |-> JoinMaxTick, maxLag |-> JoinMaxLag,
     maxBacklog |-> 2 * Cardinality(Clients), maxSent |-> 0,
     maxInbound |-> 0, clients |-> Clients, events |-> {}]

JoinNext ==
    \/ TimerFire(JoinBounds) /\ UNCHANGED <<mgrVars, lvVars, ppVars, blVars>>
    \/ Tick /\ UNCHANGED <<mgrVars, lvVars, ppVars, blVars>>
    \/ Admit /\ UNCHANGED <<mgrVars, lvVars, ppVars, blVars>>
    \/ HandleMessage /\ UNCHANGED <<mgrVars, lvVars, ppVars, blVars>>
    \/ ClientArrives(JoinBounds) /\ UNCHANGED <<mgrVars, lvVars, ppVars, blVars>>
    \/ SessionForward(JoinBounds) /\ UNCHANGED <<mgrVars, lvVars, ppVars, blVars>>
    \/ SessionExit(JoinBounds) /\ UNCHANGED <<mgrVars, lvVars, ppVars, blVars>>

SpecJoin == Init /\ [][JoinNext]_vars

\* the clients that were admitted
Admitted == {c \in Clients : sessions[c].state \in {"running", "ended"}}

\* the batches a client has received, and their events in order
ReceivedBatches(c) ==
    LET bs == SelectSeq(sessions[c].socket, LAMBDA fr : fr.f = "Binary")
    IN  [k \in 1..Len(bs) |-> bs[k].events]
Received(c) == Flatten(ReceivedBatches(c))

\* the place in the broadcast at which the client subscribed
SubscribedAt(c) == sessions[c].next - Len(ReceivedBatches(c))

\* the place in `enqueued` of the EntityCreate of an id
CreatePos(id) == CHOOSE i \in 1..Len(enqueued) : IsCreate(enqueued[i], id)

\* the entities that were live in the hub when client c was admitted: created
\* before its player and not removed by then
LiveAtAdmission(c) ==
    {id \in 1..(sessions[c].id - 1) :
       \A i \in 1..CreatePos(sessions[c].id) : ~IsDelete(enqueued[i], id)}

\* the entities whose EntityCreate was published before client c was admitted
CreatedBefore(c) ==
    {id \in 1..(sessions[c].id - 1) :
       \E k \in 1..(SubscribedAt(c) - 1) :
         \E i \in 1..Len(broadcast[k]) : IsCreate(broadcast[k][i], id)}

Refers(ev, id) ==
    IF ev.e = "Position" THEN ev.user = id ELSE ev.id = id

\* client c never receives an EntityCreate for id, and the first event for
\* id that it receives is a Position or an EntityDelete
NoSnapshotOf(c, id) ==
    /\ \A i \in 1..Len(Received(c)) : ~IsCreate(Received(c)[i], id)
    /\ \A i \in 1..Len(Received(c)) :
         (/\ Refers(Received(c)[i], id)
          /\ \A j \in 1..(i - 1) : ~Refers(Received(c)[j], id))
           => Received(c)[i].e \in {"Position", "EntityDelete"}

\* a client receives the batches published from its admission on, in order
FromAdmissionOn ==
    \A c \in Admitted :
      /\ SubscribedAt(c) >= 1
      /\ ReceivedBatches(c) = SubSeq(broadcast, SubscribedAt(c), sessions[c].next - 1)
      /\ \A k \in 1..Len(broadcast) :
           k >= SubscribedAt(c) <=> marks[k].to >= CreatePos(sessions[c].id)

\* C21 (original): a client receives only the batches published after its
\* admission, so for every entity that was live in the hub when the client
\* was admitted the client never receives an EntityCreate, and the first
\* event for that entity that it receives is a Position or an EntityDelete.
C21_Original ==
    /\ FromAdmissionOn
    /\ \A c \in Admitted : \A id \in LiveAtAdmission(c) : NoSnapshotOf(c, id)

\* C21 (amended): a client receives only the batches published after its
\* admission, so for every entity whose EntityCreate was published before the
\* client was admitted the client never receives an EntityCreate, and the
\* first event for that entity that it receives is a Position or an
\* EntityDelete; an entity spawned since the last publish is live at the
\* admission with its EntityCreate still queued, and that one the client gets.
C21_NoSnapshot ==
    /\ FromAdmissionOn
    /\ \A c \in Admitted :
         /\ \A id \in CreatedBefore(c) : NoSnapshotOf(c, id)
         /\ \A id \in LiveAtAdmission(c) \ CreatedBefore(c) :
              ReceivedBatches(c) # <<>> =>
                \E i \in 1..Len(ReceivedBatches(c)[1]) :
                  IsCreate(ReceivedBatches(c)[1][i], id)

\* a client admitted after the EntityCreate of a live entity was published
\* has received a Position for that entity and then its EntityDelete
C21_Witness ==
    \E c \in Admitted :
      \E id \in CreatedBefore(c) \cap LiveAtAdmission(c) :
        \E i \in 1..Len(Received(c)) :
          /\ IsDelete(Received(c)[i], id)
          /\ \E j \in 1..(i - 1) :
               Received(c)[j].e = "Position" /\ Received(c)[j].user = id

-----------------------------------------------------------------------------
(* SpecGrid: one hub on the smallest arena the grid accepts (map_size 10,  *)
(* scale 1), one client steering its player to the arena edge and back.    *)

GridMaxTick == 24
GridMaxSent == 2
GridBacklog == 0
GridClients == {1}
GridEvents == {DirectionChange(FALSE, FALSE, FALSE, TRUE),
               DirectionChange(FALSE, TRUE, TRUE, FALSE)}
GridConfig == [max_player_count |-> 2, map_size |-> 10]

GridBounds ==
    [maxTick |-> GridMaxTick, maxLag |-> MaxLag, maxBacklog |-> GridBacklog,
     maxSent |-> GridMaxSent,
     maxInbound |-> MaxInbound, clients |-> GridClients, events |-> GridEvents]

GridInit == HubInit(GridConfig, GridClients) /\ MgrIdle /\ LvIdle /\ PpIdle /\ BlIdle

GridNext ==
    \/ TimerFire(GridBounds) /\ UNCHANGED <<mgrVars, lvVars, ppVars, blVars>>
    \/ Tick /\ UNCHANGED <<mgrVars, lvVars, ppVars, blVars>>
    \/ Admit /\ UNCHANGED <<mgrVars, lvVars, ppVars, blVars>>
    \/ HandleMessage /\ UNCHANGED <<mgrVars, lvVars, ppVars, blVars>>
    \/ SessionEvent(GridBounds) /\ UNCHANGED <<mgrVars, lvVars, ppVars, blVars>>
    \/ SessionForward(GridBounds) /\ UNCHANGED <<mgrVars, lvVars, ppVars, blVars>>

SpecGrid == GridInit /\ [][GridNext]_vars

TilesOf(id) == {t \in 0..(NumTiles - 1) : id \in SeqRange(tiles.tiles[t])}

\* every entity whose coordinates are in range is in the tile of its coordinates
InOwnTile ==
    \A i \in 1..Len(entities) :
      InRange(tiles, entities[i].e.coordinates) =>
        TileIndex(tiles, entities[i].e.coordinates) \in TilesOf(entities[i].id)

\* no id is in more than one tile
InOneTile == \A id \in 1..ids : Cardinality(TilesOf(id)) <= 1

\* C1: every entity whose coordinates are in grid range is in the tile
\* computed from its coordinates, and no id is in more than one tile, in
\* every state of the run.
C1_GridConsistent == InOwnTile /\ InOneTile


-----------------------------------------------------------------------------
(* HubManager (hubs.rs:21-59).  A handle of `hubs` is                      *)
(* [id, player_count, alive, chan, sent, inside]: the key,                 *)
(* HubPlayers.player_count, whether the hub task still holds the receiver  *)
(* of `adder`, the streams waiting in the admission channel, every stream  *)
(* the channel took, and the number of players now in the hub's world.     *)

\* a guard that lets a hub at the cap take one more
HasRoomInclusive(hub, cfg) == hub.player_count <= cfg.max_player_count

\* the guard of create_client: `hub.player_count < self.config.max_player_count`
HasRoom(hub, cfg) == hub.player_count < cfg.max_player_count

\* `self.hubs.values_mut().min_by_key(|h| h.player_count)`: the position of
\* the first handle with the least player_count (0 when there is none)
MinByKey(hs) ==
    IF hs = <<>> THEN 0
    ELSE CHOOSE i \in 1..Len(hs) :
           /\ \A j \in 1..Len(hs) : hs[i].player_count <= hs[j].player_count
           /\ \A j \in 1..(i - 1) : hs[j].player_count > hs[i].player_count

\* HubManager::create_hub: [hubs, ids]
CreateHub(hs, counter, stream) ==
    [hubs |-> Append(hs, [id |-> IdCounterNext(counter),
                          player_count |-> 0,
                          alive |-> TRUE,
                          chan |-> <<stream>>,
                          sent |-> <<stream>>,
                          inside |-> 0]),
     ids |-> IdCounterNext(counter)]

\* HubManager::create_client: [hubs, ids, dropped]; a send on the channel of
\* a hub whose task has ended fails, and the stream goes with the error
CreateClientResult(hs, counter, cfg, stream) ==
    LET i == MinByKey(hs)
    IN  IF i # 0 /\ HasRoom(hs[i], cfg)
        THEN IF hs[i].alive
             THEN [hubs |-> [hs EXCEPT ![i].chan = Append(@, stream),
                                       ![i].sent = Append(@, stream),
                                       ![i].player_count = @ + 1],
                   ids |-> counter, dropped |-> {}]
             ELSE [hubs |-> hs, ids |-> counter, dropped |-> {stream}]
        ELSE [hubs |-> CreateHub(hs, counter, stream).hubs,
              ids |-> CreateHub(hs, counter, stream).ids,
              dropped |-> {}]

MaxStreams == 5
MaxPlayerCounts == {0, 1, 2}
MapSizes == {5, 20}

\* the accept loop hands the next stream to create_client
CreateClient ==
    /\ passed < MaxStreams
    /\ LET r == CreateClientResult(hubs, mgrIds, config, passed + 1)
       IN  /\ hubs' = r.hubs
           /\ mgrIds' = r.ids
           /\ dropped' = dropped \cup r.dropped
    /\ passed' = passed + 1

\* the task of a hub takes a stream from its admission channel and admits it:
\* spawn_player, spawn_entity, PlayerPositions::add, PlayerPositions::index,
\* whose `/ self.scale` panics when scale = map_size as usize / 10 is 0; the
\* panic ends the task and drops the receiver with what waits in it
HubTakes ==
    \E i \in 1..Len(hubs) :
      /\ hubs[i].alive
      /\ hubs[i].chan # <<>>
      /\ hubs' = IF PlayerPositionsNew(config.map_size).scale = 0
                 THEN [hubs EXCEPT ![i].alive = FALSE, ![i].chan = <<>>]
                 ELSE [hubs EXCEPT ![i].chan = Tail(@), ![i].inside = @ + 1]
      /\ UNCHANGED <<mgrIds, passed, dropped>>

\* a departure that gives the slot back to the manager
DepartedFreesSlot(hub) ==
    [hub EXCEPT !.inside = @ - 1, !.player_count = @ - 1]

\* a player's GoingAway is handled by its hub (hubs.rs:180-182): the entity
\* goes; nothing reaches the manager, whose handle keeps its player_count
Departed(hub) == [hub EXCEPT !.inside = @ - 1]

\* a player of a hub leaves
PlayerDeparts ==
    \E i \in 1..Len(hubs) :
      /\ hubs[i].alive
      /\ hubs[i].inside > 0
      /\ hubs' = [hubs EXCEPT ![i] = Departed(@)]
      /\ UNCHANGED <<mgrIds, passed, dropped>>

\* the hub of the hub runs takes no part in a manager run
HubIdle ==
    /\ entities = <<>>
    /\ tiles = PlayerPositionsNew(10)
    /\ queued_events = <<>>
    /\ ids = 0
    /\ tick = 0
    /\ panic = "none"
    /\ due = FALSE
    /\ user_adder = <<>>
    /\ received_updates = <<>>
    /\ broadcast = <<>>
    /\ sessions = <<>>
    /\ enqueued = <<>>
    /\ goneSent = <<>>
    /\ goneHandled = <<>>
    /\ lastStep = "init"
    /\ nSent = 0
    /\ marks = <<>>
    /\ ObsInit

MgrInit ==
    /\ config \in {[max_player_count |-> m, map_size |-> z] :
                     m \in MaxPlayerCounts, z \in MapSizes}
    /\ hubs = <<>>
    /\ mgrIds = 0
    /\ passed = 0
    /\ dropped = {}
    /\ HubIdle
    /\ LvIdle
    /\ PpIdle /\ BlIdle

MgrNext ==
    \/ CreateClient /\ UNCHANGED <<hubVars, histVars, lvVars, obsVars, ppVars, blVars>>
    \/ HubTakes /\ UNCHANGED <<hubVars, histVars, lvVars, obsVars, ppVars, blVars>>
    \/ PlayerDeparts /\ UNCHANGED <<hubVars, histVars, lvVars, obsVars, ppVars, blVars>>

SpecMgr == MgrInit /\ [][MgrNext]_vars

NoHubEnded == \A i \in 1..Len(hubs) : hubs[i].alive

FiveSequential == config.max_player_count = 2 /\ passed = 5 /\ NoHubEnded

\* C6 (original): with max_player_count = 2, after five clients and no hub
\* ending there are exactly two hubs, holding clients 1, 2 and clients 3, 4, 5.
C6_Original ==
    FiveSequential =>
      /\ Len(hubs) = 2
      /\ hubs[1].sent = <<1, 2>>
      /\ hubs[2].sent = <<3, 4, 5>>

\* C6 (amended): with max_player_count = 2, after five clients and no hub
\* ending there are exactly two hubs, the first holding clients 1, 2 and 3
\* and the second clients 4 and 5.
C6_Distribution ==
    FiveSequential =>
      /\ Len(hubs) = 2
      /\ hubs[1].sent = <<1, 2, 3>>
      /\ hubs[2].sent = <<4, 5>>

\* five clients were passed with max_player_count = 2 and every hub is alive
C6_Witness == FiveSequential /\ dropped = {}

\* C7: every stream passed to create_client was taken by the admission
\* channel of exactly one hub (a failed send falls through to a new hub), and
\* none was dropped.
C7_NeverDropped ==
    /\ dropped = {}
    /\ \A stream \in 1..passed :
         Cardinality({i \in 1..Len(hubs) : stream \in SeqRange(hubs[i].sent)}) = 1

\* C20: the player_count of a hub handle never decreases and is always the
\* number of streams the manager sent to that hub less one, so a hub is sent
\* at most max_player_count + 1 streams however many of its players depart,
\* and a hub whose player_count has reached max_player_count is sent no
\* further stream.
C20_AdmissionBound ==
    [][/\ Len(hubs') >= Len(hubs)
       /\ \A i \in 1..Len(hubs') :
            /\ hubs'[i].player_count = Len(hubs'[i].sent) - 1
            /\ Len(hubs'[i].sent) <= config.max_player_count + 1
       /\ \A i \in 1..Len(hubs) :
            /\ hubs'[i].player_count >= hubs[i].player_count
            /\ hubs[i].player_count >= config.max_player_count
                 => hubs'[i].sent = hubs[i].sent
      ]_vars

\* every player of a hub at the cap has departed, and the next client was
\* given a new hub
C20_Witness ==
    /\ config.max_player_count > 0
    /\ \E i \in 1..Len(hubs) :
         /\ hubs[i].player_count = config.max_player_count
         /\ hubs[i].alive
         /\ hubs[i].chan = <<>>
         /\ hubs[i].inside = 0
         /\ i < Len(hubs)

-----------------------------------------------------------------------------
(* SpecLevel: one Player entity, starting at levels 0 with some points,    *)
(* taking LevelUpgrade events through handle_event.                        *)

MaxPoints == 20
MaxUpgrades == 20
UpgradeStats == {MaxHealth, Reload}

LevelInit ==
    /\ \E p \in 0..MaxPoints :
         /\ lvEntity = EntityNew(Vec2(0, 0), 1, PlayerRole(p, 0))
         /\ lvPoints0 = p
    /\ lvPrev = lvEntity
    /\ lvStat = -1
    /\ lvCount = 0
    /\ lvSame = TRUE
    /\ config = HubConfig
    /\ HubIdle
    /\ MgrIdle
    /\ PpIdle /\ BlIdle

Upgrade ==
    /\ lvCount < MaxUpgrades
    /\ \E stat \in UpgradeStats :
         /\ lvEntity' = HandleEvent(lvEntity, LevelUpgrade(stat))
         /\ lvStat' = stat
         /\ lvSame' = (lvSame /\ (lvStat = -1 \/ lvStat = stat))
    /\ lvPrev' = lvEntity
    /\ lvCount' = lvCount + 1
    /\ UNCHANGED lvPoints0

LevelNext == Upgrade /\ UNCHANGED <<hubVars, histVars, mgrVars, obsVars, ppVars, blVars>>

SpecLevel == LevelInit /\ [][LevelNext]_vars

\* the successful upgrade of `stat`: one point spent, that level one higher
Upgraded(e, stat) ==
    [e EXCEPT !.inner.points = @ - 1, !.levels[stat + 1] = @ + 1]

\* C9: every level stays in 0..9 and points never go below 0; an upgrade
\* either spends one point and raises exactly that stat's level by one or
\* changes nothing; at level 9 or with no points it changes nothing; twenty
\* upgrades of one stat from 20 points end at level 9 with 11 points.
C9_LevelBounds ==
    /\ \A i \in 1..8 : 0 <= lvEntity.levels[i] /\ lvEntity.levels[i] < 10
    /\ lvEntity.inner.points >= 0
    /\ lvStat # -1 =>
         /\ lvEntity = Upgraded(lvPrev, lvStat) \/ lvEntity = lvPrev
         /\ (Level(lvPrev, lvStat) = 9 \/ lvPrev.inner.points = 0) => lvEntity = lvPrev
    /\ (lvSame /\ lvPoints0 = 20 /\ lvCount = 20) =>
         /\ Level(lvEntity, lvStat) = 9
         /\ lvEntity.inner.points = 11

\* twenty upgrades of one stat were applied to a player that had 20 points
C9_Witness == lvSame /\ lvPoints0 = 20 /\ lvCount = 20 /\ Level(lvEntity, lvStat) = 9

-----------------------------------------------------------------------------
(* SpecProps: a hub seeded with Props, ticking with no client.  The Props  *)
(* lie at the origin, two kinds: heavy ones (tank 2) whose hit kills a     *)
(* light one (tank 3) at once.                                             *)

PropMaxTick == 3
PropConfig == [max_player_count |-> 2, map_size |-> 10]
HeavyProp(at) == [tank |-> 3, at |-> at]
LightProp(at) == [tank |-> 4, at |-> at]
PropLayouts ==
    { << HeavyProp(Vec2(0, 0)), LightProp(Vec2(0, 0)) >>,
      << HeavyProp(Vec2(0, 0)), HeavyProp(Vec2(0, 0)), LightProp(Vec2(0, 0)) >>,
      << HeavyProp(Vec2(0, 0)), LightProp(Vec2(50, 50)) >> }

\* hub seeding: the Props of a layout, spawned in order
RECURSIVE Seed(_, _)
Seed(h, layout) ==
    IF layout = <<>> THEN h
    ELSE Seed(SpawnEntity(h, EntityNew(Head(layout).at, Head(layout).tank, PropRole)).h,
              Tail(layout))

PropBounds ==
    [maxTick |-> PropMaxTick, maxLag |-> MaxLag, maxBacklog |-> 0, maxSent |-> 0,
     maxInbound |-> 0, clients |-> {}, events |-> {}]

PropInit ==
    /\ \E layout \in PropLayouts :
         /\ entities = Seed(HubNew(PropConfig), layout).entities
         /\ tiles = Seed(HubNew(PropConfig), layout).tiles
         /\ queued_events = Seed(HubNew(PropConfig), layout).queued_events
         /\ ids = Seed(HubNew(PropConfig), layout).ids
    /\ tick = 1
    /\ panic = "none"
    /\ due = FALSE
    /\ config = PropConfig
    /\ user_adder = <<>>
    /\ received_updates = <<>>
    /\ broadcast = <<>>
    /\ sessions = <<>>
    /\ enqueued = queued_events
    /\ goneSent = <<>>
    /\ goneHandled = <<>>
    /\ lastStep = "init"
    /\ nSent = 0
    /\ marks = <<>>
    /\ ObsInit
    /\ MgrIdle
    /\ LvIdle
    /\ PpIdle /\ BlIdle

PropNext ==
    \/ TimerFire(PropBounds) /\ UNCHANGED <<mgrVars, lvVars, ppVars, blVars>>
    \/ Tick /\ UNCHANGED <<mgrVars, lvVars, ppVars, blVars>>

SpecProps == PropInit /\ [][PropNext]_vars

\* the Props the last tick removed (positions in tickPre.entities) and the
\* Props it spawned (positions in entities)
DeadProps ==
    {i \in PropsOf(tickPre.entities) : ~MapHas(entities, tickPre.entities[i].id)}
NewProps == {i \in PropsOf(entities) : entities[i].id > tickPre.ids}

CountInBatch(ev) == Cardinality({k \in 1..Len(LastBatch) : LastBatch[k] = ev})

\* C15: update_entities never changes the number of Props; each Prop whose
\* health drops to 0 or below is removed once and replaced by exactly one new
\* Prop with a fresh id and the same tank, also when it was hit several times
\* in the tick, and the replacement's EntityCreate and the old Prop's
\* EntityDelete are both in the batch of that tick.
C15_PropRespawn ==
    AfterTick =>
      /\ Cardinality(PropsOf(entities)) = Cardinality(PropsOf(tickPre.entities))
      /\ \A i \in PropsOf(entities) : Survives(entities[i].e)
      /\ \A i \in PropsOf(tickPre.entities) :
           CountInBatch(EntityDelete(tickPre.entities[i].id))
             = IF i \in DeadProps THEN 1 ELSE 0
      /\ \A tank \in 1..Len(Tanks) :
           Cardinality({i \in NewProps : entities[i].e.tank = tank})
             = Cardinality({i \in DeadProps : tickPre.entities[i].e.tank = tank})
      /\ \A i \in NewProps :
           CountInBatch(EntityCreate(entities[i].id, Tanks[entities[i].e.tank].id,
                                     entities[i].e.coordinates)) = 1

\* a Prop that the last tick hit twice died and was replaced
C15_Witness ==
    /\ AfterTick
    /\ \E i \in DeadProps :
         Cardinality({k \in 1..Len(tickHits) :
                        tickHits[k].id = tickPre.entities[i].id}) >= 2
    /\ NewProps # {}

-----------------------------------------------------------------------------
(* SpecWrap: a hub that has been running for 2^32 - 2 ticks.  Its first    *)
(* client was admitted as entity 1 and has left; a second client may       *)
(* arrive.  The run takes the tick counter past u32::MAX and on through    *)
(* the first ticks of its second round.                                    *)

WrapMaxTick == 3
WrapBounds ==
    [maxTick |-> WrapMaxTick, maxLag |-> MaxLag, maxBacklog |-> 2, maxSent |-> MaxSent,
     maxInbound |-> MaxInbound, clients |-> Clients, events |-> UserEvents]

WrapInit ==
    /\ entities = HubNew(HubConfig).entities
    /\ tiles = HubNew(HubConfig).tiles
    /\ queued_events = HubNew(HubConfig).queued_events
    /\ ids = 1
    /\ tick = U32Max - 1
    /\ panic = "none"
    /\ due = FALSE
    /\ config = HubConfig
    /\ user_adder = <<>>
    /\ received_updates = <<>>
    /\ broadcast = <<>>
    /\ sessions = [c \in Clients |->
                     IF c = 1 THEN [SessionNone EXCEPT !.state = "ended", !.id = 1]
                     ELSE SessionNone]
    /\ enqueued = <<>>
    /\ goneSent = <<>>
    /\ goneHandled = <<>>
    /\ lastStep = "init"
    /\ nSent = 0
    /\ marks = <<>>
    /\ ObsInit
    /\ MgrIdle
    /\ LvIdle
    /\ PpIdle /\ BlIdle

WrapNext ==
    \/ TimerFire(WrapBounds) /\ UNCHANGED <<mgrVars, lvVars, ppVars, blVars>>
    \/ Tick /\ UNCHANGED <<mgrVars, lvVars, ppVars, blVars>>
    \/ Admit /\ UNCHANGED <<mgrVars, lvVars, ppVars, blVars>>
    \/ HandleMessage /\ UNCHANGED <<mgrVars, lvVars, ppVars, blVars>>
    \/ ClientArrives(WrapBounds) /\ UNCHANGED <<mgrVars, lvVars, ppVars, blVars>>
    \/ SessionEvent(WrapBounds) /\ UNCHANGED <<mgrVars, lvVars, ppVars, blVars>>
    \/ SessionForward(WrapBounds) /\ UNCHANGED <<mgrVars, lvVars, ppVars, blVars>>
    \/ SessionExit(WrapBounds) /\ UNCHANGED <<mgrVars, lvVars, ppVars, blVars>>

SpecWrap == WrapInit /\ [][WrapNext]_vars

\* C19: update_entities(0) only ever runs on an empty entities map, so
\* active_cannons is never evaluated with tick = 0: the loop never takes a
\* remainder by zero.
C19_TickZeroEmpty ==
    /\ (AfterTick /\ tick = 1) => tickPre.entities = <<>>
    /\ panic # "rem_by_zero"

\* the loop has died of the remainder by zero
C19_RemByZero == panic = "rem_by_zero"

\* what holds instead: the first update_entities call of a hub, the one for
\* tick 0 of a counter that has not wrapped, runs before any admission and
\* finds no entity
C19_FirstTickEmpty ==
    /\ (tick = 0 /\ broadcast = <<>>) => entities = <<>>
    /\ (AfterTick /\ tick = 1 /\ Len(broadcast) = 1) => tickPre.entities = <<>>

-----------------------------------------------------------------------------
(* SpecTiles: a PlayerPositions<100> on its own, as the test                *)
(* tests::player_positions of hubs.rs drives it: made with size 100         *)
(* (scale 10), then add, remove and get_mut at positions inside and outside *)
(* the arena.                                                               *)

MaxGridOps == 2
TileSize == 100
TileXs == {-50, 0, 50, 99, 150, 200}
TileYs == {0, 70, 99, 200}
TileCoords == {Vec2(x * Unit, y * Unit) : x \in TileXs, y \in TileYs}
TileIds == {0, 1}

TilesInit ==
    /\ positions = PlayerPositionsNew(TileSize)
    /\ posSize = TileSize
    /\ posOp = [op |-> "none", n |-> 0, coords |-> Vec2(0, 0), id |-> 0,
                ok |-> FALSE, before |-> PlayerPositionsNew(TileSize)]
    /\ config = HubConfig
    /\ HubIdle
    /\ MgrIdle
    /\ LvIdle
    /\ BlIdle

\* positions.add(&pos, id)
PositionsAdd ==
    /\ posOp.n < MaxGridOps
    /\ \E coords \in TileCoords, id \in TileIds :
         /\ positions' = TilesAdd(positions, coords, id).pp
         /\ posOp' = [op |-> "add", n |-> posOp.n + 1, coords |-> coords, id |-> id,
                      ok |-> TilesAdd(positions, coords, id).ok, before |-> positions]
    /\ UNCHANGED posSize

\* positions.remove(&pos, id)
PositionsRemove ==
    /\ posOp.n < MaxGridOps
    /\ \E coords \in TileCoords, id \in TileIds :
         /\ positions' = TilesRemove(positions, coords, id)
         /\ posOp' = [op |-> "remove", n |-> posOp.n + 1, coords |-> coords, id |-> id,
                      ok |-> InRange(positions, coords), before |-> positions]
    /\ UNCHANGED posSize

\* positions.get_mut(&pos): ok is whether it returned Some
PositionsGetMut ==
    /\ posOp.n < MaxGridOps
    /\ \E coords \in TileCoords :
         posOp' = [op |-> "get_mut", n |-> posOp.n + 1, coords |-> coords, id |-> 0,
                   ok |-> InRange(positions, coords), before |-> positions]
    /\ UNCHANGED <<positions, posSize>>

TilesNext ==
    \/ PositionsAdd /\ UNCHANGED <<hubVars, histVars, mgrVars, lvVars, obsVars, blVars>>
    \/ PositionsRemove /\ UNCHANGED <<hubVars, histVars, mgrVars, lvVars, obsVars, blVars>>
    \/ PositionsGetMut /\ UNCHANGED <<hubVars, histVars, mgrVars, lvVars, obsVars, blVars>>

SpecTiles == TilesInit /\ [][TilesNext]_vars

\* strictly inside, and outside, the arena [-size, +size] on both axes
InsideArena(c) ==
    /\ F64Lt(F64Abs(X(c)), F64Plain(posSize * Unit))
    /\ F64Lt(F64Abs(Y(c)), F64Plain(posSize * Unit))
OutsideArena(c) ==
    \/ F64Lt(F64Plain(posSize * Unit), F64Abs(X(c)))
    \/ F64Lt(F64Plain(posSize * Unit), F64Abs(Y(c)))

\* the cell of an in-arena position holds the id
CellHas(g, c, id) == id \in SeqRange(g.tiles[TileIndex(g, c)])

\* C11: add at a position inside the arena returns true exactly when the
\* cell did not hold the id, and the cell holds it afterwards (a repeated add
\* returns false); at a position outside the arena on either axis add
\* returns false, get_mut returns None, and add, remove and get_mut leave
\* every cell unchanged.
C11_AddContract ==
    /\ (posOp.op = "add" /\ InsideArena(posOp.coords)) =>
         /\ posOp.ok <=> ~CellHas(posOp.before, posOp.coords, posOp.id)
         /\ CellHas(positions, posOp.coords, posOp.id)
    /\ (posOp.op \in {"add", "remove", "get_mut"} /\ OutsideArena(posOp.coords)) =>
         /\ ~posOp.ok
         /\ positions = posOp.before

\* the part of C11 about positions inside the arena
C11_InsideArena ==
    (posOp.op = "add" /\ InsideArena(posOp.coords)) =>
      /\ posOp.ok <=> ~CellHas(posOp.before, posOp.coords, posOp.id)
      /\ CellHas(positions, posOp.coords, posOp.id)

-----------------------------------------------------------------------------
(* SpecBullet: one bullet, made by create_bullet from a cannon of a player *)
(* tank, taking move_once steps.  move_once is a function of the entity,   *)
(* so the acceleration is also drawn from values create_bullet never sets. *)

MaxMoves == 3
ShooterAts == {Vec2(x, y) : x \in {-Unit, 0, 3}, y \in {0, 2 * Unit}}
ShooterYaws == {-135, 0, 30, 45, 90, 180, 270, 630}
BulletAccelerations == {Vec2(x, y) : x \in {-Unit, 0, 1}, y \in {-1, 0, 2 * Unit}}

\* the bullet of cannon k of a player at `at` turned to `yaw`
BulletOf(at, yaw, k) ==
    CreateBullet([EntityNew(at, 1, PlayerRole(0, 0)) EXCEPT !.yaw = yaw],
                 Tanks[1].cannons[k], 1)

BulletInit ==
    /\ \E at \in ShooterAts, yaw \in ShooterYaws, k \in 1..Len(Tanks[1].cannons) :
         \E acc \in BulletAccelerations \cup {BulletOf(at, yaw, k).acceleration} :
           /\ blCreated = BulletOf(at, yaw, k)
           /\ blBullet = [BulletOf(at, yaw, k) EXCEPT !.acceleration = acc]
    /\ blPrev = blBullet
    /\ blMoves = 0
    /\ config = HubConfig
    /\ HubIdle
    /\ MgrIdle
    /\ LvIdle
    /\ PpIdle

\* one motion step
BulletMove ==
    /\ blMoves < MaxMoves
    /\ blBullet' = MoveOnce(blBullet)
    /\ blPrev' = blBullet
    /\ blMoves' = blMoves + 1
    /\ UNCHANGED blCreated

BulletNext ==
    BulletMove /\ UNCHANGED <<hubVars, histVars, mgrVars, lvVars, obsVars, ppVars>>

SpecBullet == BulletInit /\ [][BulletNext]_vars

\* C22: a bullet is created with a velocity that is not (0,0) and with
\* max_velocity (0,0); its first motion step adds that velocity to its
\* coordinates and leaves its velocity (0,0); after every later step its
\* velocity is (0,0) again and its coordinates are those it had before the
\* step, whatever its acceleration.
C22_BulletMovesOnce ==
    /\ blCreated.velocity # Vec2(0, 0)
    /\ blCreated.max_velocity = Vec2(0, 0)
    /\ blMoves >= 1 =>
         /\ blBullet.velocity = Vec2(0, 0)
         /\ X(blBullet.coordinates)
              = F64Add(X(blCreated.coordinates), X(blCreated.velocity))
         /\ Y(blBullet.coordinates)
              = F64Add(Y(blCreated.coordinates), Y(blCreated.velocity))
    /\ blMoves >= 2 => blBullet.coordinates = blPrev.coordinates

\* a bullet with an acceleration in both axes has moved off the place it was
\* created at and has then taken further steps
C22_Witness ==
    /\ blMoves = MaxMoves
    /\ X(blBullet.acceleration).s # 0
    /\ Y(blBullet.acceleration).s # 0
    /\ blCreated.yaw % 90 # 0
    /\ blBullet.coordinates # blCreated.coordinates

=============================================================================
